---- MODULE Spec2Model ----
(***************************************************************************)
(* A model of the GM8Emulator runtime core (gm8emulator/src/game.rs):      *)
(*   - Game::frame, the per-tick phase scheduler            (SpecFrame)    *)
(*   - launch's descendant sets and Game::fill_event_holders (SpecIndex)   *)
(*   - Game::check_collision                                (SpecCollision)*)
(*   - the point, rectangle and line queries                (SpecQueries)  *)
(*   - Game::record                                         (SpecRecord)   *)
(*   - Game::record against Game::replay         (SpecRecordThenReplay)    *)
(*   - two executions of Game::replay                  (SpecTwoReplays)    *)
(* Scripts (compiled action trees) are external to the scheduler: an       *)
(* executed script is a nondeterministic choice among the effects the      *)
(* scheduler observes - a scene-change request, instances marked Deleted,  *)
(* a runtime error.                                                        *)
(***************************************************************************)
EXTENDS Integers, Sequences, FiniteSets, TLC

VARIABLES
    \* ---- Game::frame
    pc,             \* the phase frame() is about to execute, or "returned"
    result,         \* "running", "ok" (frame returned Ok) or "err" (returned Err)
    scene_change,   \* Game::scene_change
    instance_list,  \* Game::instance_list, in insertion order
    tl_iter,        \* position of the timeline phase's instance iterator
    phases,         \* history: the phases executed so far in this tick
    requested_in,   \* history: the phase during which a scene change became pending
    tl_before,      \* history: instance_list when the timeline phase began
    moments_run,    \* history: the timeline moments executed in this tick
    marked,         \* history: ids marked Deleted during this tick
    \* ---- launch and the event index
    launched,             \* "assets" before launch, then "running" or "failed"
    objects,              \* assets.objects, with each object's children set
    event_holders,        \* Game::event_holders
    custom_draw_objects,  \* Game::custom_draw_objects
    game_assets,          \* the GameAssets launch was given, as far as they can fail it
    walk,                 \* launch's cursor in the parent-chain loops
    \* ---- collision queries
    geometry,       \* the fields of each instance that a collision query reads or writes
    query,          \* the last collision query and the value it returned
    \* ---- Game::record, Game::replay, Game::run
    session,        \* where the mode loop of this process is, or how it returned
    game,           \* the simulation state of this process's Game
    replay,         \* the Replay this process records into or plays from
    frame_count,    \* replay()'s frame counter
    files,          \* the SaveState files of the project directory
    do_update_mouse,\* record()'s do_update_mouse flag
    moment_order,   \* iteration order of this process's timeline moment maps
    step,           \* history: what the last handled message or tick did
    since_save,     \* history: the state at the last Save, while only Advances followed
    trace,          \* history: the state after each tick of this process
    replica         \* a second process playing the same Replay

frameVars == <<pc, result, scene_change, instance_list, tl_iter, phases,
               requested_in, tl_before, moments_run, marked>>

indexVars == <<launched, objects, event_holders, custom_draw_objects,
              game_assets, walk>>

collisionVars == <<geometry, query>>

sessionVars == <<session, game, replay, frame_count, files, do_update_mouse,
                 moment_order, step, since_save, trace, replica>>

vars == <<frameVars, indexVars, collisionVars, sessionVars>>

\* ------------------------------------------------------------------ helpers

Range(s) == {s[i] : i \in 1..Len(s)}

\* ------------------------------------------------------------------ bounds

\* Largest timeline cursor an instance starts a tick with.
MaxPos == 1

\* ===================================================================
\* Game::frame
\* ===================================================================

SceneNone == [kind |-> "None", id |-> -1]
SceneRoom(r) == [kind |-> "Room", id |-> r]
SceneRestart == [kind |-> "Restart", id |-> -1]
SceneEnd == [kind |-> "End", id |-> -1]

\* The requests a script can raise (room_goto, game_restart, game_end).
SceneRequests == {SceneRoom(0), SceneRestart, SceneEnd}

\* The instance ids of the room's placements.
InstanceIds == <<100001, 100002>>

\* timelines[i] for the timeline assets that exist: the moments, ascending.
\* Index 1 is an empty slot of the asset table.
TimelineMoments == [t \in {0} |-> <<0, 1, 3>>]
TimelineIndexes == {0, 1}
TimelineSpeeds == {-1, 0, 2}

\* GetAsset::get_asset on the timeline table
TimelineExists(index) == index >= 0 /\ index \in DOMAIN TimelineMoments

\* Mutant of NextPhase: the held-mouse events run before the held-keyboard events.
NextPhaseMouseFirst(p) ==
    CASE p = "snapshot" -> "begin_step_triggers"
      [] p = "begin_step_triggers" -> "begin_step"
      [] p = "begin_step" -> "timelines"
      [] p = "timelines" -> "alarms"
      [] p = "alarms" -> "mouse"
      [] p = "mouse" -> "keyboard"
      [] p = "keyboard" -> "key_press"
      [] p = "key_press" -> "key_release"
      [] p = "key_release" -> "step_triggers"
      [] p = "step_triggers" -> "step"
      [] p = "step" -> "movement"
      [] p = "movement" -> "bounds"
      [] p = "bounds" -> "collisions"
      [] p = "collisions" -> "end_step_triggers"
      [] p = "end_step_triggers" -> "end_step"
      [] p = "end_step" -> "particles"
      [] p = "particles" -> "remove_deleted"
      [] p = "remove_deleted" -> "draw"
      [] p = "draw" -> "backgrounds"
      [] p = "backgrounds" -> "animation"
      [] p = "animation" -> "caption"
      [] p = "caption" -> "returned"

\* The order in which frame() runs its phases.
NextPhase(p) ==
    CASE p = "snapshot" -> "begin_step_triggers"
      [] p = "begin_step_triggers" -> "begin_step"
      [] p = "begin_step" -> "timelines"
      [] p = "timelines" -> "alarms"
      [] p = "alarms" -> "keyboard"
      [] p = "keyboard" -> "mouse"
      [] p = "mouse" -> "key_press"
      [] p = "key_press" -> "key_release"
      [] p = "key_release" -> "step_triggers"
      [] p = "step_triggers" -> "step"
      [] p = "step" -> "movement"
      [] p = "movement" -> "bounds"
      [] p = "bounds" -> "collisions"
      [] p = "collisions" -> "end_step_triggers"
      [] p = "end_step_triggers" -> "end_step"
      [] p = "end_step" -> "particles"
      [] p = "particles" -> "remove_deleted"
      [] p = "remove_deleted" -> "draw"
      [] p = "draw" -> "backgrounds"
      [] p = "backgrounds" -> "animation"
      [] p = "animation" -> "caption"
      [] p = "caption" -> "returned"

\* The phases frame() follows with `if self.scene_change.is_some() { return Ok(()) }`.
CheckedAfter(p) ==
    p \in {"begin_step_triggers", "begin_step", "alarms", "keyboard", "mouse",
           "key_press", "key_release", "step_triggers", "step", "bounds",
           "collisions", "end_step_triggers", "end_step"}

\* What running scripts can do, as far as frame() observes it: leave or replace
\* the pending scene change, mark instances Deleted, fail.
ScriptOutcomes ==
    [sc : {scene_change} \cup SceneRequests,
     del : SUBSET (1..Len(instance_list)),
     err : BOOLEAN]

MarkDeleted(list, del) ==
    [k \in 1..Len(list) |->
        IF k \in del THEN [list[k] EXCEPT !.state = "Deleted"] ELSE list[k]]

NewlyMarked(list, del) == {list[k].id : k \in {j \in del : list[j].state = "Active"}}

\* The script part of a phase p with outcome o; `checked` tells whether frame()
\* tests scene_change after the phase.
AfterScripts(p, o, checked) ==
    /\ scene_change' = o.sc
    /\ requested_in' = IF scene_change = SceneNone /\ o.sc # SceneNone
                       THEN p ELSE requested_in
    /\ instance_list' = MarkDeleted(instance_list, o.del)
    /\ marked' = marked \cup NewlyMarked(instance_list, o.del)
    /\ IF o.err
       THEN pc' = "returned" /\ result' = "err"
       ELSE IF checked /\ o.sc # SceneNone
            THEN pc' = "returned" /\ result' = "ok"
            ELSE pc' = NextPhase(p) /\ result' = IF NextPhase(p) = "returned" THEN "ok" ELSE result

\* Before any collision query: no query has been answered.
NoQuery == [kind |-> "none", i1 |-> 0, i2 |-> 0, value |-> "none"]

\* Game::frame is not running.
FrameIdle ==
    /\ pc = "returned" /\ result = "ok" /\ scene_change = SceneNone
    /\ instance_list = <<>> /\ tl_iter = 1 /\ phases = <<>> /\ requested_in = "none"
    /\ tl_before = <<>> /\ moments_run = <<>> /\ marked = {}

\* No mode loop is running: the process is outside record(), replay() and run().
SessionIdle ==
    /\ session = "idle" /\ game = <<>> /\ replay = <<>> /\ frame_count = 0
    /\ files = <<>> /\ do_update_mouse = FALSE /\ moment_order = <<>>
    /\ step = <<>> /\ since_save = <<>> /\ trace = <<>> /\ replica = <<>>

\* The event index and the collision queries play no part in the phase order.
IndexIdle ==
    /\ launched = "running"
    /\ objects = <<>>
    /\ event_holders = <<>>
    /\ custom_draw_objects = {}
    /\ game_assets = <<>> /\ walk = <<>>
    /\ geometry = <<>>
    /\ query = NoQuery
    /\ SessionIdle

\* A phase that fires events (run_triggers, run_object_event, run_alarms, ...).
EventPhase(p) ==
    /\ pc = p
    /\ phases' = Append(phases, p)
    /\ \E o \in ScriptOutcomes : AfterScripts(p, o, CheckedAfter(p))
    /\ UNCHANGED <<tl_iter, tl_before, moments_run>>
    /\ UNCHANGED <<indexVars, collisionVars, sessionVars>>

\* A phase that runs no script and cannot fail.
QuietPhase(p) ==
    /\ pc = p
    /\ phases' = Append(phases, p)
    /\ pc' = NextPhase(p)
    /\ result' = IF NextPhase(p) = "returned" THEN "ok" ELSE result
    /\ UNCHANGED <<scene_change, requested_in, instance_list, marked,
                   tl_iter, tl_before, moments_run>>
    /\ UNCHANGED <<indexVars, collisionVars, sessionVars>>

\* audio cleanup; xprevious, yprevious, path_positionprevious := current values
Snapshot == QuietPhase("snapshot")

BeginStepTriggers == EventPhase("begin_step_triggers")
BeginStepEvent == EventPhase("begin_step")

\* Mutant of MomentsDue: the window is (old cursor, new cursor].
MomentsDueShifted(moments, old_position, new_position) ==
    SelectSeq(moments, LAMBDA m : m > old_position /\ m <= new_position)

\* The moments of a timeline that one tick executes, in iteration order.
MomentsDue(moments, old_position, new_position) ==
    SelectSeq(moments, LAMBDA m : m >= old_position /\ m < new_position)

\* One iteration of the timeline loop: the instance at the iterator.
TimelineAdvance ==
    /\ pc = "timelines"
    /\ tl_iter <= Len(instance_list)
    /\ phases' = IF tl_iter = 1 THEN Append(phases, "timelines") ELSE phases
    /\ tl_before' = IF tl_iter = 1 THEN instance_list ELSE tl_before
    /\ UNCHANGED <<indexVars, collisionVars, sessionVars>>
    /\ LET instance == instance_list[tl_iter] IN
       IF instance.timeline_running /\ TimelineExists(instance.timeline_index)
       THEN LET old_position == instance.timeline_position
                new_position == old_position + instance.timeline_speed
                due == MomentsDue(TimelineMoments[instance.timeline_index],
                                  old_position, new_position)
                advanced == [instance_list EXCEPT
                                ![tl_iter].timeline_position = new_position]
            IN  \/ \* every due moment executes
                   \E o \in ScriptOutcomes :
                     /\ o.err = FALSE
                     /\ Len(due) = 0 => (o.sc = scene_change /\ o.del = {})
                     /\ moments_run' = moments_run \o
                            [k \in 1..Len(due) |-> [inst |-> instance.id, moment |-> due[k]]]
                     /\ instance_list' = MarkDeleted(advanced, o.del)
                     /\ marked' = marked \cup NewlyMarked(instance_list, o.del)
                     /\ scene_change' = o.sc
                     /\ requested_in' = IF scene_change = SceneNone /\ o.sc # SceneNone
                                        THEN "timelines" ELSE requested_in
                     /\ tl_iter' = tl_iter + 1
                     /\ UNCHANGED <<pc, result>>
                \/ \* the n-th due moment fails: frame() returns the error
                   \E n \in 1..Len(due), o \in ScriptOutcomes :
                     /\ o.err = TRUE
                     /\ moments_run' = moments_run \o
                            [k \in 1..n |-> [inst |-> instance.id, moment |-> due[k]]]
                     /\ instance_list' = MarkDeleted(advanced, o.del)
                     /\ marked' = marked \cup NewlyMarked(instance_list, o.del)
                     /\ scene_change' = o.sc
                     /\ requested_in' = IF scene_change = SceneNone /\ o.sc # SceneNone
                                        THEN "timelines" ELSE requested_in
                     /\ pc' = "returned" /\ result' = "err"
                     /\ UNCHANGED tl_iter
       ELSE /\ tl_iter' = tl_iter + 1
            /\ UNCHANGED <<pc, result, scene_change, requested_in, instance_list,
                           marked, moments_run>>

\* The timeline loop is over; frame() goes on to the alarms.
TimelineDone ==
    /\ pc = "timelines"
    /\ tl_iter > Len(instance_list)
    /\ phases' = IF tl_iter = 1 THEN Append(phases, "timelines") ELSE phases
    /\ tl_before' = IF tl_iter = 1 THEN instance_list ELSE tl_before
    /\ pc' = NextPhase("timelines")
    /\ UNCHANGED <<result, scene_change, requested_in, instance_list, marked,
                   tl_iter, moments_run>>
    /\ UNCHANGED <<indexVars, collisionVars, sessionVars>>

Alarms == EventPhase("alarms")
KeyboardEvents == EventPhase("keyboard")
MouseEvents == EventPhase("mouse")
KeyPressEvents == EventPhase("key_press")
KeyReleaseEvents == EventPhase("key_release")
StepTriggers == EventPhase("step_triggers")
StepEvent == EventPhase("step")
\* process_speeds, apply_speeds and the motion-stopped events (OTHER, 8)
Movement == EventPhase("movement")
BoundEvents == EventPhase("bounds")
Collisions == EventPhase("collisions")
EndStepTriggers == EventPhase("end_step_triggers")
EndStepEvent == EventPhase("end_step")
Particles == QuietPhase("particles")

\* Mutant of IsDeleted: the removal pass drops the live instances instead.
IsDeletedInverted(instance) == instance.state # "Deleted"

\* The predicate of frame()'s removal pass.
IsDeleted(instance) == instance.state = "Deleted"

\* InstanceList::remove_with(IsDeleted): keeps the other instances, in order.
RemoveWithIsDeleted(list) == SelectSeq(list, LAMBDA i : ~IsDeleted(i))

RemoveDeleted ==
    /\ pc = "remove_deleted"
    /\ phases' = Append(phases, "remove_deleted")
    /\ instance_list' = RemoveWithIsDeleted(instance_list)
    /\ pc' = NextPhase("remove_deleted")
    /\ UNCHANGED <<result, scene_change, requested_in, marked, tl_iter, tl_before,
                   moments_run>>
    /\ UNCHANGED <<indexVars, collisionVars, sessionVars>>

\* Game::draw, which runs the draw events of custom_draw_objects
Draw == EventPhase("draw")
Backgrounds == QuietPhase("backgrounds")
\* image_index += image_speed, with the animation-end event (OTHER, 7) on wrap
Animation == EventPhase("animation")
Caption == QuietPhase("caption")

\* The entry of frame(): no scene change is pending; the room's instances are live.
InitFrame ==
    /\ pc = "snapshot"
    /\ result = "running"
    /\ scene_change = SceneNone
    /\ instance_list \in
         [1..Len(InstanceIds) ->
            [id : Range(InstanceIds), state : {"Active"}, timeline_running : BOOLEAN,
             timeline_index : TimelineIndexes, timeline_position : 0..MaxPos,
             timeline_speed : TimelineSpeeds]]
    /\ \A k \in 1..Len(InstanceIds) : instance_list[k].id = InstanceIds[k]
    /\ tl_iter = 1
    /\ phases = <<>>
    /\ requested_in = "none"
    /\ tl_before = <<>>
    /\ moments_run = <<>>
    /\ marked = {}
    /\ IndexIdle

NextFrame ==
    \/ Snapshot
    \/ BeginStepTriggers
    \/ BeginStepEvent
    \/ TimelineAdvance
    \/ TimelineDone
    \/ Alarms
    \/ KeyboardEvents
    \/ MouseEvents
    \/ KeyPressEvents
    \/ KeyReleaseEvents
    \/ StepTriggers
    \/ StepEvent
    \/ Movement
    \/ BoundEvents
    \/ Collisions
    \/ EndStepTriggers
    \/ EndStepEvent
    \/ Particles
    \/ RemoveDeleted
    \/ Draw
    \/ Backgrounds
    \/ Animation
    \/ Caption

SpecFrame == InitFrame /\ [][NextFrame]_vars

\* ===================================================================
\* launch's descendant sets and Game::fill_event_holders
\* ===================================================================

\* The slots of the object table (assets.objects), and one id past its end.
ObjectSlots == {0, 1, 2}
NoSuchObject == 3

\* Sub-keys: for collision events the id of the other object.
SubKeys == ObjectSlots \cup {NoSuchObject}

\* The 12 event categories, in the order of the event_holders array.
Categories ==
    <<"CREATE", "DESTROY", "ALARM", "STEP", "COLLISION", "KEYBOARD", "MOUSE",
      "OTHER", "DRAW", "KEYPRESS", "KEYRELEASE", "TRIGGER">>

\* The handlers the objects of the modelled games declare.
EventUniverse ==
    {<<"COLLISION", k>> : k \in SubKeys} \cup {<<"DRAW", 0>>, <<"ALARM", 0>>, <<"ALARM", 1>>}

\* An empty slot of the object table (None).
NoObject == [exists |-> FALSE, parent_index |-> -1, events |-> {}, children |-> {}]

\* Orders in which a HashMap or HashSet over sub-keys or ids may iterate.
IterationOrders ==
    {<<0, 1, 2, 3>>, <<3, 2, 1, 0>>}

\* The elements of a hashed collection S in the iteration order ord.
InOrder(S, ord) == SelectSeq(ord, LAMBDA x : x \in S)

\* ---- launch: "Populate identity lists" and the parent-chain walk

ObjectExists(objs, index) == index \in DOMAIN objs /\ objs[index].exists

RECURSIVE WalkParentsInverted(_, _, _)
\* Mutant of WalkParents: the ancestor is inserted into the object's set.
WalkParentsInverted(objs, i, parent_index) ==
    IF parent_index < 0
    THEN [ok |-> TRUE, objects |-> objs]
    ELSE IF ObjectExists(objs, parent_index)
         THEN WalkParentsInverted([objs EXCEPT ![i].children = @ \cup {parent_index}],
                                  i, objs[parent_index].parent_index)
         ELSE [ok |-> FALSE, objects |-> objs]

RECURSIVE WalkParents(_, _, _)
\* while parent_index >= 0 { parent.children.insert(i); parent_index = parent.parent_index }
WalkParents(objs, i, parent_index) ==
    IF parent_index < 0
    THEN [ok |-> TRUE, objects |-> objs]
    ELSE IF ObjectExists(objs, parent_index)
         THEN WalkParents([objs EXCEPT ![parent_index].children = @ \cup {i}],
                          i, objs[parent_index].parent_index)
         ELSE [ok |-> FALSE, objects |-> objs]

RECURSIVE PopulateChildren(_, _)
\* the loop over object_parents, in index order
PopulateChildren(objs, todo) ==
    IF todo = <<>>
    THEN [ok |-> TRUE, objects |-> objs]
    ELSE LET i == Head(todo)
             walked == WalkParents(objs, i, objs[i].parent_index)
         IN  IF ~objs[i].exists
             THEN PopulateChildren(objs, Tail(todo))
             ELSE IF walked.ok
                  THEN PopulateChildren(walked.objects, Tail(todo))
                  ELSE walked

SlotsAscending == InOrder(ObjectSlots, <<0, 1, 2, 3>>)

LaunchObjects(objs) ==
    PopulateChildren(
        [i \in DOMAIN objs |->
            IF objs[i].exists THEN [objs[i] EXCEPT !.children = {i}] ELSE objs[i]],
        SlotsAscending)

\* ---- IndexMap<u32, Rc<RefCell<Vec<ID>>>> as a sequence of [key, list] entries

IndexOfKey(map, k) ==
    IF \E i \in 1..Len(map) : map[i].key = k
    THEN CHOOSE i \in 1..Len(map) : map[i].key = k
    ELSE 0

\* entry(k).or_insert(Default::default())
EntryOrInsert(map, k) ==
    IF IndexOfKey(map, k) = 0 THEN Append(map, [key |-> k, list |-> <<>>]) ELSE map

\* if !sub_list.contains(x) { sub_list.push(x) }
PushIfAbsent(list, x) == IF x \in Range(list) THEN list ELSE Append(list, x)

RECURSIVE PushAllIfAbsent(_, _)
PushAllIfAbsent(list, xs) ==
    IF xs = <<>> THEN list
    ELSE PushAllIfAbsent(PushIfAbsent(list, Head(xs)), Tail(xs))

\* the entry of key k, created when missing, receives every x of xs it lacks
RegisterAll(map, k, xs) ==
    LET m == EntryOrInsert(map, k)
        i == IndexOfKey(m, k)
    IN  [m EXCEPT ![i].list = PushAllIfAbsent(@, xs)]

\* ---- fill_event_holders, first loop

\* The handlers <<category, sub-key>> an object may declare, in the order the
\* first loop visits them: categories by array position, sub-keys in ord_e.
HandlerOrder ==
    [ord_e \in IterationOrders |->
        LET nk == Len(ord_e)
            all == [n \in 1..(Len(Categories) * nk) |->
                      <<Categories[((n - 1) \div nk) + 1], ord_e[((n - 1) % nk) + 1]>>]
        IN  SelectSeq(all, LAMBDA e : e \in EventUniverse)]

RECURSIVE DeclaredFrom(_, _, _)
\* The declared handlers [obj, cat, sub] of the objects `slots`, objects by index.
DeclaredFrom(objs, slots, ord_e) ==
    IF slots = <<>> THEN <<>>
    ELSE LET o == Head(slots)
             own == SelectSeq(HandlerOrder[ord_e], LAMBDA e : e \in objs[o].events)
         IN  [k \in 1..Len(own) |-> [obj |-> o, cat |-> own[k][1], sub |-> own[k][2]]]
             \o DeclaredFrom(objs, Tail(slots), ord_e)

\* for object in objects.iter().flatten(): its events
DeclaredHandlers(objs, ord_e) ==
    DeclaredFrom(objs, SelectSeq(SlotsAscending, LAMBDA o : objs[o].exists), ord_e)

RECURSIVE RegisterDeclaredOwnId(_, _, _, _)
\* Mutant of RegisterDeclared: only the declaring object is registered.
RegisterDeclaredOwnId(holders, objs, decl, ord_c) ==
    IF decl = <<>> THEN holders
    ELSE LET d == Head(decl) IN
         RegisterDeclaredOwnId(
            [holders EXCEPT ![d.cat] = RegisterAll(@, d.sub, <<d.obj>>)],
            objs, Tail(decl), ord_c)

RECURSIVE RegisterDeclared(_, _, _, _)
RegisterDeclared(holders, objs, decl, ord_c) ==
    IF decl = <<>> THEN holders
    ELSE LET d == Head(decl) IN
         RegisterDeclared(
            [holders EXCEPT ![d.cat] =
                RegisterAll(@, d.sub, InOrder(objs[d.obj].children, ord_c))],
            objs, Tail(decl), ord_c)

\* ---- fill_event_holders, "Swap collision events over to targets and their children"

RECURSIVE RegisterColliderWithChildren(_, _, _)
\* for child in object.children { entry(child) gets collider }
RegisterColliderWithChildren(map, kids, collider) ==
    IF kids = <<>> THEN map
    ELSE RegisterColliderWithChildren(
            RegisterAll(map, Head(kids), <<collider>>), Tail(kids), collider)

RECURSIVE ExpandCollidersOwnKey(_, _, _, _)
\* Mutant of ExpandColliders: the swap registers the key alone, not its children.
ExpandCollidersOwnKey(map, key, kids, j) ==
    LET list == map[IndexOfKey(map, key)].list IN
    IF j > Len(list) THEN map
    ELSE LET collider == list[j]
             m1 == RegisterAll(map, collider, <<key>>)
             m2 == RegisterColliderWithChildren(m1, <<key>>, collider)
         IN  ExpandCollidersOwnKey(m2, key, kids, j + 1)

RECURSIVE ExpandColliders(_, _, _, _)
\* the inner while loop: j walks the (growing) list of `key`
ExpandColliders(map, key, kids, j) ==
    LET list == map[IndexOfKey(map, key)].list IN
    IF j > Len(list) THEN map
    ELSE LET collider == list[j]
             m1 == RegisterAll(map, collider, kids)
             m2 == RegisterColliderWithChildren(m1, kids, collider)
         IN  ExpandColliders(m2, key, kids, j + 1)

RECURSIVE ExpandCollisionKeys(_, _, _, _)
\* the outer while loop: i walks the (growing) collision map by index
ExpandCollisionKeys(map, objs, i, ord_c) ==
    IF i > Len(map) THEN map
    ELSE LET key == map[i].key IN
         IF ObjectExists(objs, key)
         THEN ExpandCollisionKeys(
                 ExpandColliders(map, key, InOrder(objs[key].children, ord_c), 1),
                 objs, i + 1, ord_c)
         ELSE ExpandCollisionKeys(map, objs, i + 1, ord_c)

\* Mutant of KeepAtLeast: the comparison is reversed.
KeepAtMost(x, sub) == x <= sub

\* list.retain(|x| *x >= *sub)
KeepAtLeast(x, sub) == x >= sub

RetainNotBelowKey(map) ==
    [i \in 1..Len(map) |->
        [map[i] EXCEPT !.list = SelectSeq(@, LAMBDA x : KeepAtLeast(x, map[i].key))]]

\* retain(|_, x| !x.is_empty())
DropEmptyLists(map) == SelectSeq(map, LAMBDA e : e.list # <<>>)

\* ---- fill_event_holders, "Sort all the event holder lists into ascending order"

RECURSIVE InsertSorted(_, _)
InsertSorted(sorted, x) ==
    IF sorted = <<>> THEN <<x>>
    ELSE IF x < Head(sorted) THEN <<x>> \o sorted
         ELSE <<Head(sorted)>> \o InsertSorted(Tail(sorted), x)

\* Mutant of SortList: the list is left in insertion order.
SortListSkipped(list) == list

RECURSIVE SortList(_)
\* Vec::sort
SortList(list) ==
    IF list = <<>> THEN <<>>
    ELSE InsertSorted(SortList(SubSeq(list, 1, Len(list) - 1)), list[Len(list)])

RECURSIVE InsertEntrySorted(_, _)
InsertEntrySorted(sorted, e) ==
    IF sorted = <<>> THEN <<e>>
    ELSE IF e.key < Head(sorted).key THEN <<e>> \o sorted
         ELSE <<Head(sorted)>> \o InsertEntrySorted(Tail(sorted), e)

RECURSIVE SortMapByKey(_)
\* IndexMap::sort_by(|x, _, y, _| x.cmp(y))
SortMapByKey(map) ==
    IF map = <<>> THEN <<>>
    ELSE InsertEntrySorted(SortMapByKey(SubSeq(map, 1, Len(map) - 1)), map[Len(map)])

SortHolders(map) ==
    LET m == SortMapByKey(map)
    IN  [i \in 1..Len(m) |-> [m[i] EXCEPT !.list = SortList(@)]]

EmptyHolders == [c \in Range(Categories) |-> <<>>]

\* Game::fill_event_holders on an event_holders array `holders`
FillEventHolders(holders, objs, ord_e, ord_c) ==
    LET pass1 == RegisterDeclared(holders, objs, DeclaredHandlers(objs, ord_e), ord_c)
        swapped == ExpandCollisionKeys(pass1["COLLISION"], objs, 1, ord_c)
        pass2 == [pass1 EXCEPT !["COLLISION"] = DropEmptyLists(RetainNotBelowKey(swapped))]
    IN  [c \in DOMAIN pass2 |-> SortHolders(pass2[c])]

\* "Make list of objects with custom draw events"
CustomDrawObjects(holders) ==
    UNION {Range(holders["DRAW"][i].list) : i \in 1..Len(holders["DRAW"])}

\* ---- the object tables of the modelled games

\* Most handlers the objects of one game declare together.
MaxHandlers == 2

RECURSIVE ParentChainEnd(_, _, _)
ParentChainEnd(par, i, n) ==
    IF i < 0 \/ n = 0 THEN i ELSE ParentChainEnd(par, par[i], n - 1)

\* Parent references that form a rooted forest over the existing objects E.
Forests(E) ==
    {par \in [E -> {-1} \cup E] :
        \A i \in E : ParentChainEnd(par, i, Cardinality(E)) < 0}

RECURSIVE HandlerSets(_, _)
\* The sets of at most n declarations <<object, <<category, sub-key>>>>.
HandlerSets(E, n) ==
    IF n = 0 THEN {{}}
    ELSE LET smaller == HandlerSets(E, n - 1)
         IN  smaller \cup {H \cup {d} : H \in smaller, d \in E \X EventUniverse}

ObjectTable(E, par, H) ==
    [i \in ObjectSlots |->
        IF i \in E
        THEN [exists |-> TRUE, parent_index |-> par[i],
              events |-> {e \in EventUniverse : <<i, e>> \in H}, children |-> {}]
        ELSE NoObject]

HandlerCount(objs) ==
    Cardinality({d \in ObjectSlots \X EventUniverse : d[2] \in objs[d[1]].events})

\* The state before launch: the object assets, no index yet.
InitIndex ==
    /\ launched = "assets"
    /\ \E E \in SUBSET ObjectSlots :
         \E par \in Forests(E), H \in HandlerSets(E, MaxHandlers) :
            objects = ObjectTable(E, par, H)
    /\ event_holders = EmptyHolders
    /\ custom_draw_objects = {}
    /\ game_assets = <<>> /\ walk = <<>>
    /\ pc = "returned" /\ result = "ok" /\ scene_change = SceneNone
    /\ instance_list = <<>> /\ tl_iter = 1 /\ phases = <<>> /\ requested_in = "none"
    /\ tl_before = <<>> /\ moments_run = <<>> /\ marked = {}
    /\ geometry = <<>> /\ query = NoQuery
    /\ SessionIdle

\* Game::launch, as far as the objects and the event index go.
Launch ==
    /\ launched = "assets"
    /\ LET populated == LaunchObjects(objects) IN
       IF populated.ok
       THEN \E ord_e \in IterationOrders, ord_c \in IterationOrders :
              LET holders == FillEventHolders(EmptyHolders, populated.objects, ord_e, ord_c)
              IN  /\ objects' = populated.objects
                  /\ event_holders' = holders
                  /\ custom_draw_objects' = CustomDrawObjects(holders)
                  /\ launched' = "running"
       ELSE /\ launched' = "failed"
            /\ UNCHANGED <<objects, event_holders, custom_draw_objects>>
    /\ UNCHANGED <<frameVars, collisionVars, sessionVars, game_assets, walk>>

\* Mutant of ClearHolders: the lists are refilled on top of what they held.
ClearHoldersSkipped(holders) == holders

\* for holder_list in event_holders { holder_list.clear() }
ClearHolders(holders) == [c \in DOMAIN holders |-> <<>>]

\* Game::refresh_event_holders on the current object definitions
RefreshedIndex(objs, holders, ord_e, ord_c) ==
    FillEventHolders(ClearHolders(holders), objs, ord_e, ord_c)

RefreshEventHolders ==
    /\ launched = "running"
    /\ \E ord_e \in IterationOrders, ord_c \in IterationOrders :
         LET holders == RefreshedIndex(objects, event_holders, ord_e, ord_c)
         IN  /\ event_holders' = holders
             /\ custom_draw_objects' = CustomDrawObjects(holders)
    /\ UNCHANGED <<launched, objects>>
    /\ UNCHANGED <<frameVars, collisionVars, sessionVars, game_assets, walk>>

\* A script adds a handler to an object (object_event_add); the index is rebuilt.
ObjectEventAdd ==
    /\ launched = "running"
    /\ HandlerCount(objects) < MaxHandlers
    /\ \E o \in ObjectSlots, e \in EventUniverse :
         /\ objects[o].exists
         /\ e \notin objects[o].events
         /\ LET objs == [objects EXCEPT ![o].events = @ \cup {e}] IN
            \E ord_e \in IterationOrders, ord_c \in IterationOrders :
              LET holders == RefreshedIndex(objs, event_holders, ord_e, ord_c)
              IN  /\ objects' = objs
                  /\ event_holders' = holders
                  /\ custom_draw_objects' = CustomDrawObjects(holders)
    /\ UNCHANGED launched
    /\ UNCHANGED <<frameVars, collisionVars, sessionVars, game_assets, walk>>

NextIndex ==
    \/ Launch
    \/ RefreshEventHolders
    \/ ObjectEventAdd

SpecIndex == InitIndex /\ [][NextIndex]_vars

\* ---- Game::launch, one step at a time

\* The room orders of the modelled games; room 0 is the only room that exists.
RoomOrders == {<<>>, <<0>>, <<1>>}
RoomExists(room_id) == room_id = 0

\* The asset kind, if any, that the texture atlas has no room for.
PackFaults == {"none", "sprite", "background", "font"}

\* The kind of code, if any, that does not compile.
CompileFaults == {"none", "object", "timeline", "script", "room", "trigger"}

\* Every object table over the slots: a slot is empty or holds an object whose
\* parent index is negative, names a slot or names no slot.
ObjectTables ==
    [ObjectSlots ->
        {NoObject} \cup
        {[exists |-> TRUE, parent_index |-> p, events |-> {}, children |-> {}] :
            p \in {-1, NoSuchObject} \cup ObjectSlots}]

\* How launch can have ended: with a Game, with an Error, or in a panic.
LaunchEnded == {"running", "failed", "panicked"}

\* The cursor of the for loop over object_parents at the first object from slot i
\* on, or past the table.
CursorFrom(objs, i) ==
    LET rest == {k \in ObjectSlots : k >= i /\ objs[k].exists}
    IN IF rest = {}
          THEN [i |-> NoSuchObject, parent_index |-> -1]
          ELSE LET k == CHOOSE k \in rest : \A other \in rest : k <= other
               IN [i |-> k, parent_index |-> objs[k].parent_index]

\* Mutant of WalkOnce: the ancestor is inserted into the object's set.
WalkOnceInverted(objs, w) ==
    IF w.parent_index < 0
    THEN [ok |-> TRUE, objects |-> objs, walk |-> CursorFrom(objs, w.i + 1)]
    ELSE IF ObjectExists(objs, w.parent_index)
    THEN [ok |-> TRUE,
          objects |-> [objs EXCEPT ![w.i].children = @ \cup {w.parent_index}],
          walk |-> [w EXCEPT !.parent_index = objs[w.parent_index].parent_index]]
    ELSE [ok |-> FALSE, objects |-> objs, walk |-> w]

\* One test of `while parent_index >= 0` and what follows it: the loop body, the
\* next object of the for loop, or the invalid-parent-tree error.
WalkOnce(objs, w) ==
    IF w.parent_index < 0
    THEN [ok |-> TRUE, objects |-> objs, walk |-> CursorFrom(objs, w.i + 1)]
    ELSE IF ObjectExists(objs, w.parent_index)
    THEN [ok |-> TRUE,
          objects |-> [objs EXCEPT ![w.parent_index].children = @ \cup {w.i}],
          walk |-> [w EXCEPT !.parent_index = objs[w.parent_index].parent_index]]
    ELSE [ok |-> FALSE, objects |-> objs, walk |-> w]

LaunchFrame == UNCHANGED <<frameVars, collisionVars, sessionVars>>

\* "Room order is empty" and "First room does not exist".
LaunchFirstRoom ==
    /\ launched = "assets"
    /\ launched' = IF /\ game_assets.room_order # <<>>
                      /\ RoomExists(Head(game_assets.room_order))
                   THEN "rooms" ELSE "failed"
    /\ UNCHANGED <<objects, event_holders, custom_draw_objects, game_assets, walk>>
    /\ LaunchFrame

\* Sprites, backgrounds and fonts are packed into the atlas: expect() on the results.
LaunchPack ==
    /\ launched = "rooms"
    /\ launched' = IF game_assets.pack = "none" THEN "packed" ELSE "panicked"
    /\ UNCHANGED <<objects, event_holders, custom_draw_objects, game_assets, walk>>
    /\ LaunchFrame

\* The object events are compiled, then every object enters its own set.
LaunchObjectsCompiled ==
    /\ launched = "packed"
    /\ IF game_assets.compile = "object"
          THEN /\ launched' = "failed"
               /\ UNCHANGED <<objects, walk>>
          ELSE /\ launched' = "walking"
               /\ objects' = [i \in DOMAIN objects |->
                                IF objects[i].exists
                                   THEN [objects[i] EXCEPT !.children = {i}]
                                   ELSE objects[i]]
               /\ walk' = CursorFrom(objects, 0)
    /\ UNCHANGED <<event_holders, custom_draw_objects, game_assets>>
    /\ LaunchFrame

\* The parent-chain loops.
LaunchWalk ==
    /\ launched = "walking"
    /\ IF walk.i = NoSuchObject
          THEN /\ launched' = "objects"
               /\ UNCHANGED <<objects, walk>>
          ELSE LET next == WalkOnce(objects, walk)
               IN /\ launched' = IF next.ok THEN "walking" ELSE "failed"
                  /\ objects' = next.objects
                  /\ walk' = next.walk
    /\ UNCHANGED <<event_holders, custom_draw_objects, game_assets>>
    /\ LaunchFrame

\* Timelines, scripts, rooms and triggers are compiled; then the Game is built.
LaunchRest ==
    /\ launched = "objects"
    /\ IF game_assets.compile # "none"
          THEN /\ launched' = "failed"
               /\ UNCHANGED <<event_holders, custom_draw_objects>>
          ELSE \E ord_e \in IterationOrders, ord_c \in IterationOrders :
                 LET holders == FillEventHolders(EmptyHolders, objects, ord_e, ord_c)
                 IN /\ event_holders' = holders
                    /\ custom_draw_objects' = CustomDrawObjects(holders)
                    /\ launched' = "running"
    /\ UNCHANGED <<objects, game_assets, walk>>
    /\ LaunchFrame

InitLaunch ==
    /\ launched = "assets"
    /\ objects \in ObjectTables
    /\ game_assets \in [room_order : RoomOrders, pack : PackFaults, compile : CompileFaults]
    /\ walk = <<>>
    /\ event_holders = EmptyHolders
    /\ custom_draw_objects = {}
    /\ FrameIdle
    /\ geometry = <<>> /\ query = NoQuery
    /\ SessionIdle

NextLaunch ==
    \/ LaunchFirstRoom
    \/ LaunchPack
    \/ LaunchObjectsCompiled
    \/ LaunchWalk
    \/ LaunchRest

SpecLaunch == InitLaunch /\ [][NextLaunch]_vars

\* launch is one call: once entered it keeps running.
SpecLaunchFair == SpecLaunch /\ WF_vars(NextLaunch)

\* ---- fill_event_holders' collision pass, one iteration at a time

\* The cursors of the two while loops (i into the map, j into the list of the
\* i-th key) and the iteration orders of this process's hashed collections.
SwapCursor(i, j, ord_e, ord_c) == [i |-> i, j |-> j, ord_e |-> ord_e, ord_c |-> ord_c]

\* Mutant of SwapOnce: j += 1 is left out.
SwapOnceSameCollider(map, objs, w) ==
    LET key == map[w.i].key IN
    IF ~ObjectExists(objs, key) \/ w.j > Len(map[w.i].list)
       THEN [map |-> map, walk |-> [w EXCEPT !.i = @ + 1, !.j = 1]]
       ELSE LET kids == InOrder(objs[key].children, w.ord_c)
                collider == map[w.i].list[w.j]
            IN [map |-> RegisterColliderWithChildren(RegisterAll(map, collider, kids),
                                                     kids, collider),
                walk |-> w]

\* One evaluation of the outer loop's body, or one iteration of the inner loop:
\* a key that names no object is passed over; past the end of the key's list
\* the outer cursor moves on; else the collider at j is registered both ways.
SwapOnce(map, objs, w) ==
    LET key == map[w.i].key IN
    IF ~ObjectExists(objs, key) \/ w.j > Len(map[w.i].list)
       THEN [map |-> map, walk |-> [w EXCEPT !.i = @ + 1, !.j = 1]]
       ELSE LET kids == InOrder(objs[key].children, w.ord_c)
                collider == map[w.i].list[w.j]
            IN [map |-> RegisterColliderWithChildren(RegisterAll(map, collider, kids),
                                                     kids, collider),
                walk |-> [w EXCEPT !.j = @ + 1]]

\* fill_event_holders has run its first loop on the object table of a launch.
InitSwap ==
    /\ launched = "swapping"
    /\ \E E \in SUBSET ObjectSlots :
         \E par \in Forests(E), H \in HandlerSets(E, MaxHandlers) :
            objects = LaunchObjects(ObjectTable(E, par, H)).objects
    /\ \E ord_e \in IterationOrders, ord_c \in IterationOrders :
         /\ walk = SwapCursor(1, 1, ord_e, ord_c)
         /\ event_holders = RegisterDeclared(EmptyHolders, objects,
                                             DeclaredHandlers(objects, ord_e), ord_c)
    /\ custom_draw_objects = {}
    /\ game_assets = <<>>
    /\ FrameIdle
    /\ SessionIdle
    /\ geometry = <<>> /\ query = NoQuery

\* while let Some(key) = collision_holders.get_index(i): one step of the walk
SwapStep ==
    /\ launched = "swapping"
    /\ walk.i <= Len(event_holders["COLLISION"])
    /\ LET next == SwapOnce(event_holders["COLLISION"], objects, walk)
       IN /\ event_holders' = [event_holders EXCEPT !["COLLISION"] = next.map]
          /\ walk' = next.walk
    /\ UNCHANGED <<launched, objects, custom_draw_objects, game_assets>>
    /\ LaunchFrame

\* get_index(i) is None: the retains and the sorts follow, and the index is ready.
SwapDone ==
    /\ launched = "swapping"
    /\ walk.i > Len(event_holders["COLLISION"])
    /\ LET pass2 == [event_holders EXCEPT
                        !["COLLISION"] = DropEmptyLists(RetainNotBelowKey(@))]
           holders == [c \in DOMAIN pass2 |-> SortHolders(pass2[c])]
       IN /\ event_holders' = holders
          /\ custom_draw_objects' = CustomDrawObjects(holders)
    /\ launched' = "running"
    /\ UNCHANGED <<objects, walk, game_assets>>
    /\ LaunchFrame

NextSwap ==
    \/ SwapStep
    \/ SwapDone

SpecSwap == InitSwap /\ [][NextSwap]_vars

\* ===================================================================
\* Game::check_collision
\* ===================================================================
\* Positions are whole numbers, image_angle is 0 and the scales are whole and
\* positive, so rounding a position is exact and util::rotate_around leaves a
\* point where it is.

\* Option<T>
Some(v) == [some |-> TRUE, v |-> v]
None == [some |-> FALSE]

\* Collider::data is row-major; index 0 is the top-left pixel.
SolidData(w, h) == [k \in 1..(w * h) |-> TRUE]
DiagonalData(w, h) == [k \in 1..(w * h) |-> ((k - 1) % w) = ((k - 1) \div w)]

\* A Collider whose bounding box spans the whole w x h map.
Collider(w, h, data) ==
    [width |-> w, height |-> h, bbox_left |-> 0, bbox_right |-> w - 1,
     bbox_top |-> 0, bbox_bottom |-> h - 1, data |-> data]

EmptyData(w, h) == [k \in 1..(w * h) |-> FALSE]

SolidMask == Collider(10, 10, SolidData(10, 10))
EmptyMask == Collider(10, 10, EmptyData(10, 10))
DiagonalMask == Collider(10, 10, DiagonalData(10, 10))

MinOf(S) == IF S = {} THEN 0 ELSE CHOOSE m \in S : \A n \in S : m <= n
MaxOf(S) == IF S = {} THEN 0 ELSE CHOOSE m \in S : \A n \in S : m >= n

\* launch: the sprite's own box is the hull of its colliders' boxes.
Sprite(origin_x, origin_y, colliders, per_frame_colliders) ==
    [origin_x |-> origin_x, origin_y |-> origin_y,
     colliders |-> colliders, per_frame_colliders |-> per_frame_colliders,
     bbox_left |-> MinOf({c.bbox_left : c \in Range(colliders)}),
     bbox_right |-> MaxOf({c.bbox_right : c \in Range(colliders)}),
     bbox_top |-> MinOf({c.bbox_top : c \in Range(colliders)}),
     bbox_bottom |-> MaxOf({c.bbox_bottom : c \in Range(colliders)})]

\* assets.sprites: slot 0 a solid square with its origin at the top-left corner,
\* slot 1 the same square with a centred origin, slot 2 a two-frame sprite with
\* one collider per frame, slot 3 a deleted sprite, slot 4 a mask with no set
\* pixel, slot 5 a sprite without frames (the asset reader gives it no collider),
\* slot 6 a sprite flagged per-frame that holds no collider (the asset reader
\* never yields one: a per-frame sprite has one collider for each frame).
Sprites ==
    << Some(Sprite(0, 0, <<SolidMask>>, FALSE)),
       Some(Sprite(5, 5, <<SolidMask>>, FALSE)),
       Some(Sprite(0, 0, <<DiagonalMask, SolidMask>>, TRUE)),
       None,
       Some(Sprite(0, 0, <<EmptyMask>>, FALSE)),
       Some(Sprite(0, 0, <<>>, FALSE)),
       Some(Sprite(0, 0, <<>>, TRUE)) >>

\* GetAsset::get_asset
GetAsset(assets, index) ==
    IF index < 0
    THEN None
    ELSE IF index + 1 \in DOMAIN assets /\ assets[index + 1].some
         THEN assets[index + 1]
         ELSE None

\* The mask an instance collides with: mask_index if set, else its own sprite.
MaskSprite(inst) ==
    GetAsset(Sprites, IF inst.mask_index < 0 THEN inst.sprite_index ELSE inst.mask_index)

\* Instance::update_bbox at angle 0 and a whole positive scale: the sprite's box,
\* scaled about the origin; without a sprite the box is the default one.
UpdateBbox(inst, sprite) ==
    IF sprite.some
    THEN [inst EXCEPT
            !.bbox_left = inst.x + ((sprite.v.bbox_left - sprite.v.origin_x) * inst.image_xscale),
            !.bbox_right = inst.x + ((sprite.v.bbox_right + 1 - sprite.v.origin_x) * inst.image_xscale) - 1,
            !.bbox_top = inst.y + ((sprite.v.bbox_top - sprite.v.origin_y) * inst.image_yscale),
            !.bbox_bottom = inst.y + ((sprite.v.bbox_bottom + 1 - sprite.v.origin_y) * inst.image_yscale) - 1]
    ELSE [inst EXCEPT !.bbox_left = -100000, !.bbox_right = -100000,
                      !.bbox_top = -100000, !.bbox_bottom = -100000]

BoxesDisjointReversed(a, b) ==
    \/ a.bbox_right > b.bbox_left
    \/ b.bbox_right > a.bbox_left
    \/ a.bbox_bottom > b.bbox_top
    \/ b.bbox_bottom > a.bbox_top

\* The AABB rejection test.
BoxesDisjoint(a, b) ==
    \/ a.bbox_right < b.bbox_left
    \/ b.bbox_right < a.bbox_left
    \/ a.bbox_bottom < b.bbox_top
    \/ b.bbox_bottom < a.bbox_top

\* Rust's % on i32: the remainder takes the sign of the dividend.
RustRem(a, b) == IF a >= 0 THEN a % b ELSE -((-a) % b)

\* image_index % colliders.len() panics when the sprite has no collider.
ColliderPanics(sprite) ==
    sprite.per_frame_colliders /\ Len(sprite.colliders) = 0

\* The collider of the instance's current frame, or the sprite's only one.
ColliderOf(sprite, inst) ==
    IF sprite.per_frame_colliders
    THEN LET idx == RustRem(inst.image_index, Len(sprite.colliders))
         IN  IF idx >= 0 /\ idx < Len(sprite.colliders)
             THEN Some(sprite.colliders[idx + 1])
             ELSE None
    ELSE IF Len(sprite.colliders) > 0 THEN Some(sprite.colliders[1]) ELSE None

\* floor(a / scale)
FloorDiv(a, scale) == IF scale > 0 THEN a \div scale ELSE (-a) \div (-scale)

LocalCoordinateUnanchored(origin, p, position, scale) == FloorDiv(p - position, scale)

\* A screen coordinate mapped into the mask of an instance.
LocalCoordinate(origin, p, position, scale) == origin + FloorDiv(p - position, scale)

\* collider.data.get(idx).copied().unwrap_or(false)
DataGet(data, idx) == IF idx + 1 \in DOMAIN data THEN data[idx + 1] ELSE FALSE

\* Is the mask pixel (x, y) inside the collider's box and set?
MaskBit(collider, x, y) ==
    /\ x >= collider.bbox_left
    /\ y >= collider.bbox_top
    /\ x <= collider.bbox_right
    /\ y <= collider.bbox_bottom
    /\ DataGet(collider.data, (y * collider.width) + x)

\* Does the instance's mask cover the screen pixel (px, py)?
InstanceCovers(inst, sprite, collider, px, py) ==
    MaskBit(collider,
            LocalCoordinate(sprite.origin_x, px, inst.x, inst.image_xscale),
            LocalCoordinate(sprite.origin_y, py, inst.y, inst.image_yscale))

\* The pixel loop over the intersection of the two boxes.
PixelsOverlap(inst1, sprite1, collider1, inst2, sprite2, collider2) ==
    LET intersect_top == IF inst1.bbox_top >= inst2.bbox_top
                         THEN inst1.bbox_top ELSE inst2.bbox_top
        intersect_bottom == IF inst1.bbox_bottom <= inst2.bbox_bottom
                            THEN inst1.bbox_bottom ELSE inst2.bbox_bottom
        intersect_left == IF inst1.bbox_left >= inst2.bbox_left
                          THEN inst1.bbox_left ELSE inst2.bbox_left
        intersect_right == IF inst1.bbox_right <= inst2.bbox_right
                           THEN inst1.bbox_right ELSE inst2.bbox_right
    IN  \E intersect_y \in intersect_top..intersect_bottom :
          \E intersect_x \in intersect_left..intersect_right :
            /\ InstanceCovers(inst1, sprite1, collider1, intersect_x, intersect_y)
            /\ InstanceCovers(inst2, sprite2, collider2, intersect_x, intersect_y)

\* Game::check_collision: the value returned ("panic" when the call aborts) and
\* the instance list with the boxes it refreshed.
CheckCollision(list, i1, i2) ==
    IF i1 = i2
    THEN [value |-> "false", list |-> list]
    ELSE LET sprite1 == MaskSprite(list[i1])
             sprite2 == MaskSprite(list[i2])
             inst1 == UpdateBbox(list[i1], sprite1)
             inst2 == UpdateBbox(list[i2], sprite2)
             updated == [list EXCEPT ![i1] = inst1, ![i2] = inst2]
             value ==
               IF BoxesDisjoint(inst1, inst2) THEN "false"
               ELSE IF ~(sprite1.some /\ sprite2.some) THEN "false"
               ELSE IF ColliderPanics(sprite1.v) THEN "panic"
               ELSE IF ~ColliderOf(sprite1.v, inst1).some THEN "false"
               ELSE IF ColliderPanics(sprite2.v) THEN "panic"
               ELSE IF ~ColliderOf(sprite2.v, inst2).some THEN "false"
               ELSE IF PixelsOverlap(inst1, sprite1.v, ColliderOf(sprite1.v, inst1).v,
                                     inst2, sprite2.v, ColliderOf(sprite2.v, inst2).v)
                    THEN "true"
                    ELSE "false"
         IN  [value |-> value, list |-> updated]

\* Where the instances of the model stand.
Places == {<<0, 0>>, <<5, 5>>, <<20, 20>>, <<5, 0>>}

\* <<sprite_index, mask_index, image_index>> of the instances of the model.
Looks == {<<0, -1, 0>>, <<1, -1, 0>>, <<2, -1, 0>>, <<2, -1, 1>>, <<3, -1, 0>>, <<3, 0, 0>>,
          <<4, -1, 0>>, <<5, -1, 0>>}

\* A new instance: its cached box has not been computed yet.
PlacedInstance(place, look) ==
    [x |-> place[1], y |-> place[2],
     sprite_index |-> look[1], mask_index |-> look[2], image_index |-> look[3],
     image_xscale |-> 1, image_yscale |-> 1, image_angle |-> 0,
     bbox_left |-> 0, bbox_right |-> 0, bbox_top |-> 0, bbox_bottom |-> 0]

\* A room with two instances, between ticks.
InitCollision ==
    /\ \E p1 \in Places, p2 \in Places, l1 \in Looks, l2 \in Looks :
         geometry = <<PlacedInstance(p1, l1), PlacedInstance(p2, l2)>>
    /\ query = NoQuery
    /\ FrameIdle
    /\ launched = "running" /\ objects = <<>> /\ event_holders = <<>>
    /\ custom_draw_objects = {}
    /\ game_assets = <<>> /\ walk = <<>>
    /\ SessionIdle

\* A script asks whether two instances collide.
CheckCollisionQuery ==
    /\ \E i1 \in DOMAIN geometry, i2 \in DOMAIN geometry :
         LET r == CheckCollision(geometry, i1, i2)
         IN  /\ geometry' = r.list
             /\ query' = [kind |-> "check_collision", i1 |-> i1, i2 |-> i2,
                          value |-> r.value]
    /\ UNCHANGED <<frameVars, indexVars, sessionVars>>

\* A script moves an instance; its cached box is left stale.
MoveInstance ==
    /\ \E i \in DOMAIN geometry, place \in Places :
         /\ <<geometry[i].x, geometry[i].y>> # place
         /\ geometry' = [geometry EXCEPT ![i].x = place[1], ![i].y = place[2]]
    /\ query' = NoQuery
    /\ UNCHANGED <<frameVars, indexVars, sessionVars>>

NextCollision ==
    \/ CheckCollisionQuery
    \/ MoveInstance

SpecCollision == InitCollision /\ [][NextCollision]_vars

\* ===================================================================
\* Game::record, Game::replay and Game::run
\* ===================================================================

\* Most Frames a recorded Replay holds.
MaxTicks == 2

\* Game::room_order, and the speed of each room.
RoomOrder == <<0, 1>>
RoomSpeeds == [r \in Range(RoomOrder) |-> IF r = 0 THEN 30 ELSE 50]

\* The spoofed clock main() hands to launch: none with --realtime, else the wall clock.
LaunchClocks == {None, Some(1000)}

\* The key deltas of one Advance message (one key: nothing, or a press).
KeyInputs == {<<>>, <<"KeyPress">>}

\* Advance's new_seed.
NewSeeds == {None, Some(7)}

\* rand: one draw from the generator (a step of a congruential generator, in small).
NextSeed(seed) == ((seed * 5) + 3) % 16

\* What the scripts of one tick do, as far as the mode loop can tell: the scene
\* change they request, the number of draws they make from the generator, or a
\* runtime error.
ScriptResults ==
    {[request |-> r, error |-> FALSE, draws |-> 1] :
        r \in {SceneNone, SceneRoom(1), SceneRestart, SceneEnd}}
        \cup {[request |-> SceneNone, error |-> FALSE, draws |-> 2],
              [request |-> SceneNone, error |-> TRUE, draws |-> 1]}

\* Game::draw runs the draw events of the instances, whose scripts can request a
\* scene change like those of any other event.
DrawRequests == {SceneNone, SceneRoom(0), SceneEnd}

\* What the scripts of one room load do: the scene change requested by the events
\* of the load (room end, creation code, create, game start, room start), the one
\* requested by the draw events of the frame-0 draw, or a runtime error.
LoadResults ==
    {[in_events |-> e, in_draw |-> SceneNone, error |-> FALSE] :
        e \in {SceneNone, SceneRoom(0), SceneRestart, SceneEnd}}
        \cup {[in_events |-> SceneNone, in_draw |-> d, error |-> FALSE] :
                 d \in DrawRequests \ {SceneNone}}
        \cup {[in_events |-> SceneNone, in_draw |-> SceneNone, error |-> TRUE]}

\* A room load whose scripts request nothing and raise no error.
Quiet == [in_events |-> SceneNone, in_draw |-> SceneNone, error |-> FALSE]

\* Game::launch followed by the load of the first room.
Launched(clock) ==
    [seed |-> 0, clock |-> clock, room |-> RoomOrder[1], room_speed |-> RoomSpeeds[RoomOrder[1]],
     timeline_position |-> 0, instances |-> <<[created_in |-> RoomOrder[1]]>>,
     key_held |-> FALSE, scene_change |-> SceneNone]

\* Game::load_room: the room's instances replace the old ones, the room's speed
\* applies and the pending scene change is cleared.
LoadRoom(g, room_id) ==
    [g EXCEPT !.room = room_id, !.room_speed = RoomSpeeds[room_id],
              !.timeline_position = 0,
              !.instances = Append(@, [created_in |-> room_id]),
              !.scene_change = SceneNone]

\* Game::load_room with scripts that act during the load. An error of an event
\* returns it. A Room request of the events is loaded in turn (with quiet
\* scripts), any other request of the events is cleared and the load returns
\* without the frame-0 draw; a request of the draw is left in scene_change.
LoadRoomErrorsIgnored(g, room_id, load) ==
    [ok |-> TRUE, game |-> LoadRoom(g, room_id)]

LoadRoomWith(g, room_id, load) ==
    LET entered == LoadRoom(g, room_id)
    IN IF load.error THEN [ok |-> FALSE, game |-> entered]
       ELSE IF load.in_events.kind = "Room"
          THEN [ok |-> TRUE, game |-> LoadRoom(entered, load.in_events.id)]
       ELSE IF load.in_events # SceneNone
          THEN [ok |-> TRUE, game |-> entered]
       ELSE [ok |-> TRUE, game |-> [entered EXCEPT !.scene_change = load.in_draw]]

\* Game::restart: game end events, a new instance list, then the first room.
Restart(g) ==
    LoadRoom([g EXCEPT !.instances = <<[ended |-> TRUE]>>], RoomOrder[1])

\* Game::restart with scripts that act during the load of the first room.
RestartWith(g, load) ==
    LoadRoomWith([g EXCEPT !.instances = <<[ended |-> TRUE]>>], RoomOrder[1], load)

\* Game::run_game_end_events
RunGameEndEvents(g) == [g EXCEPT !.instances = Append(@, [ended |-> TRUE])]

\* Game::frame as the mode loop sees it. The instances keep a log of what their
\* scripts observed (generator, clock, held key) and of the timeline moments
\* they executed, in execution order; the scripts draw from the generator. A
\* scene change still pending from a room load ends the tick at the first check.
Frame(g, script, order) ==
    LET due == MomentsDue(InOrder(Range(TimelineMoments[0]), order),
                          g.timeline_position, g.timeline_position + 2)
    IN IF g.scene_change # SceneNone THEN g
       ELSE [g EXCEPT !.instances = Append(@, [seed |-> g.seed, clock |-> g.clock,
                                               key_held |-> g.key_held,
                                               moments |-> due]),
                      !.seed = IF script.draws = 1 THEN NextSeed(g.seed)
                               ELSE NextSeed(NextSeed(g.seed)),
                      !.timeline_position = @ + 2,
                      !.scene_change = script.request]

\* ---- replay.rs and the savestate module

\* Replay::new
ReplayNew(start_time, start_seed) ==
    [start_time |-> start_time, start_seed |-> start_seed, frames |-> <<>>]

\* Replay::new_frame: a Frame with no input is pushed.
NewFrame(rep, room_speed) ==
    [rep EXCEPT !.frames = Append(@, [new_seed |-> None, new_time |-> None, inputs |-> <<>>,
                                      events |-> <<>>, room_speed |-> room_speed])]

\* Replay::frame_count
FrameCount(rep) == Len(rep.frames)

\* Replay::get_frame
GetFrame(rep, n) == IF n < Len(rep.frames) THEN Some(rep.frames[n + 1]) ELSE None

\* SaveState::from: the snapshot of the game with the Replay recorded so far.
SaveStateFrom(g, rep) == [game |-> g, replay |-> rep]

\* Option::unwrap_or
UnwrapOr(option, default) == IF option.some THEN option.v ELSE default

\* ---- Game::record

\* The save files a controller names.
FileNames == {"a", "b"}

\* input_manager.key_press for every KeyPress of the message
KeyProcessed(g, keys) ==
    [g EXCEPT !.key_held = @ \/ (\E k \in 1..Len(keys) : keys[k] = "KeyPress")]

\* Information::Update
Update(g, rep, instance_requested) ==
    [keys_held |-> g.key_held, frame_count |-> FrameCount(rep), seed |-> g.seed,
     instance |-> IF instance_requested THEN Some(g.instances[Len(g.instances)]) ELSE None]

\* What one handled message did: the loop of record() that received it, the ticks it ran, the Frames it added and the
\* Updates it sent.
Handled(in_loop, message, filename, ticks, frames, updates) ==
    [in_loop |-> in_loop, message |-> message, filename |-> filename, ticks |-> ticks,
     frames |-> frames, updates |-> updates]

\* The state a Save captured, for comparison at the next Load of the same file.
Saved(filename, g, rep) ==
    Some([filename |-> filename, frame_count |-> FrameCount(rep), seed |-> g.seed,
          instances |-> g.instances, frames |-> rep.frames, loaded |-> FALSE])

\* The match on scene_change after self.frame() in each mode's loop: a Room is
\* loaded, a Restart restarts; on End run() and replay() run the game end events
\* and break with Ok, record() restarts the game. An error of the load returns it.
Resolved(mode, g, load) ==
    LET loaded == IF g.scene_change.kind = "Room"
                     THEN LoadRoomWith(g, g.scene_change.id, load)
                     ELSE RestartWith(g, load)
    IN CASE g.scene_change.kind = "Room"
              \/ g.scene_change.kind = "Restart"
              \/ (g.scene_change.kind = "End" /\ mode = "record") ->
                [outcome |-> IF loaded.ok THEN "continue" ELSE "error", game |-> loaded.game]
         [] g.scene_change.kind = "End" /\ mode # "record" ->
                [outcome |-> "ok", game |-> RunGameEndEvents(g)]
         [] OTHER -> [outcome |-> "continue", game |-> g]

\* The scene change is resolved after the tick (record(): End restarts the game).
ResolveRecord(g) == Resolved("record", g, Quiet).game

\* The other processes and histories a record session leaves alone.
RecordFrame ==
    UNCHANGED <<frameVars, indexVars, collisionVars, frame_count, moment_order, replica>>

\* Mutant of FileExists: no file is ever found.
FileExistsNever(fs, filename) == FALSE

\* path.exists()
FileExists(fs, filename) == fs[filename].some

\* Hello while record() waits for the greeting: the named SaveState is loaded if
\* its file exists and created otherwise; one Update answers.
RecvHello ==
    /\ session = "greeting"
    /\ \E filename \in {"a"} :
         /\ IF FileExists(files, filename)
               THEN /\ game' = files[filename].v.game
                    /\ replay' = files[filename].v.replay
                    /\ files' = files
               ELSE /\ files' = [files EXCEPT ![filename] = Some(SaveStateFrom(game, replay))]
                    /\ UNCHANGED <<game, replay>>
         /\ step' = Handled("greeting", "Hello", filename, 0,
                            FrameCount(replay') - FrameCount(replay),
                            <<Update(game', replay', FALSE)>>)
    /\ session' = "recording"
    /\ UNCHANGED <<do_update_mouse, since_save, trace>>
    /\ RecordFrame

\* The messages of the protocol.
Messages == {"Hello", "Advance", "SetUpdateMouse", "Save", "Load"}

\* The loop of record() a message arrives in.
LoopOf(s) == IF s = "greeting" THEN "greeting" ELSE "main"

\* Mutant of RecvOutOfSequence: the message is skipped and record() goes on.
RecvOutOfSequenceSkipped ==
    /\ \E m \in Messages :
         /\ \/ session = "greeting" /\ m # "Hello"
            \/ session = "recording" /\ m = "Hello"
         /\ step' = Handled(LoopOf(session), m, "", 0, 0, <<>>)
    /\ session' = session
    /\ UNCHANGED <<game, replay, files, do_update_mouse, since_save, trace>>
    /\ RecordFrame

\* A message other than Hello while record() waits for the greeting, or a Hello
\* in the main loop: record() returns an error.
RecvOutOfSequence ==
    /\ \E m \in Messages :
         /\ \/ session = "greeting" /\ m # "Hello"
            \/ session = "recording" /\ m = "Hello"
         /\ step' = Handled(LoopOf(session), m, "", 0, 0, <<>>)
    /\ session' = "error"
    /\ UNCHANGED <<game, replay, files, do_update_mouse, since_save, trace>>
    /\ RecordFrame

\* The part of Advance before self.frame(): the seed and the inputs are set.
InputsApplied(g, keys, new_seed) ==
    KeyProcessed(IF new_seed.some THEN [g EXCEPT !.seed = new_seed.v] ELSE g, keys)

\* Advance: a Frame is added, the inputs are applied, one tick runs, the scene
\* change is resolved and one Update answers. An error of the tick or of the
\* room load that resolves the scene change ends record().
AdvanceWith(keys, new_seed, instance_requested, script, load) ==
    /\ session = "recording"
    /\ FrameCount(replay) < MaxTicks
    /\ LET added == NewFrame(replay, game.room_speed)
           n == Len(added.frames)
           ticked == Frame(InputsApplied(game, keys, new_seed), script, moment_order)
           resolved == Resolved("record", ticked, load)
       IN /\ replay' = [added EXCEPT !.frames[n].new_seed = new_seed,
                                     !.frames[n].inputs = keys]
          /\ IF script.error \/ resolved.outcome = "error"
                THEN /\ game' = IF script.error THEN ticked ELSE resolved.game
                     /\ session' = "error"
                     /\ step' = Handled("main", "Advance", "", 1,
                                        FrameCount(replay') - FrameCount(replay), <<>>)
                ELSE /\ game' = resolved.game
                     /\ session' = "recording"
                     /\ step' = Handled("main", "Advance", "", 1,
                                        FrameCount(replay') - FrameCount(replay),
                                        <<Update(game', replay', instance_requested)>>)
    /\ since_save' = IF since_save.some /\ since_save.v.loaded THEN None ELSE since_save
    /\ UNCHANGED <<files, do_update_mouse>>
    /\ RecordFrame

\* Advance in a game whose scripts do nothing during a room load.
Advance(keys, new_seed, instance_requested, script) ==
    AdvanceWith(keys, new_seed, instance_requested, script, Quiet)

RecvAdvance ==
    /\ \E keys \in KeyInputs, new_seed \in NewSeeds, instance_requested \in BOOLEAN,
          script \in ScriptResults :
         Advance(keys, new_seed, instance_requested, script)
    /\ UNCHANGED trace

\* SetUpdateMouse
RecvSetUpdateMouse ==
    /\ session = "recording"
    /\ UNCHANGED <<session, game, replay, files, trace>>
    /\ \E update \in BOOLEAN : do_update_mouse' = update
    /\ step' = Handled("main", "SetUpdateMouse", "", 0,
                        FrameCount(replay') - FrameCount(replay), <<>>)
    /\ since_save' = None
    /\ RecordFrame

\* Mutant of RecvSave: the Save is answered with an Update.
RecvSaveAnswered ==
    /\ session = "recording"
    /\ \E filename \in {"a"} :
         /\ files' = [files EXCEPT ![filename] = Some(SaveStateFrom(game, replay))]
         /\ step' = Handled("main", "Save", filename, 0, 0, <<Update(game, replay, FALSE)>>)
         /\ since_save' = Saved(filename, game, replay)
    /\ UNCHANGED <<session, game, replay, do_update_mouse, trace>>
    /\ RecordFrame

\* Save: the snapshot and the Replay so far go to the named file.
RecvSave ==
    /\ session = "recording"
    /\ UNCHANGED <<session, game, replay, do_update_mouse, trace>>
    /\ \E filename \in {"a"} :
         /\ files' = [files EXCEPT ![filename] = Some(SaveStateFrom(game, replay))]
         /\ step' = Handled("main", "Save", filename, 0,
                             FrameCount(replay') - FrameCount(replay), <<>>)
         /\ since_save' = Saved(filename, game, replay)
    /\ RecordFrame

\* Mutant of RecvLoad: the game state is restored but record() keeps its Replay.
RecvLoadKeepingReplay ==
    /\ session = "recording"
    /\ \E filename \in FileNames, instance_requested \in BOOLEAN :
         /\ IF FileExists(files, filename)
               THEN /\ game' = files[filename].v.game
                    /\ replay' = replay
                    /\ session' = "recording"
                    /\ step' = Handled("main", "Load", filename, 0,
                                       FrameCount(replay') - FrameCount(replay),
                                       <<Update(game', replay', instance_requested)>>)
               ELSE /\ UNCHANGED <<game, replay>>
                    /\ session' = "error"
                    /\ step' = Handled("main", "Load", filename, 0,
                                       FrameCount(replay') - FrameCount(replay), <<>>)
         /\ since_save' = IF /\ since_save.some /\ ~since_save.v.loaded
                             /\ since_save.v.filename = filename
                             /\ FileExists(files, filename)
                          THEN Some([since_save.v EXCEPT !.loaded = TRUE])
                          ELSE None
    /\ UNCHANGED <<files, do_update_mouse, trace>>
    /\ RecordFrame

\* Load: the named SaveState replaces the game state and the Replay; one Update
\* answers. A file that cannot be opened ends record() with an error.
RecvLoad ==
    /\ session = "recording"
    /\ \E filename \in FileNames, instance_requested \in BOOLEAN :
         /\ IF FileExists(files, filename)
               THEN /\ game' = files[filename].v.game
                    /\ replay' = files[filename].v.replay
                    /\ session' = "recording"
                    /\ step' = Handled("main", "Load", filename, 0,
                                       FrameCount(replay') - FrameCount(replay),
                                       <<Update(game', replay', instance_requested)>>)
               ELSE /\ UNCHANGED <<game, replay>>
                    /\ session' = "error"
                    /\ step' = Handled("main", "Load", filename, 0,
                                       FrameCount(replay') - FrameCount(replay), <<>>)
         /\ since_save' = IF /\ since_save.some /\ ~since_save.v.loaded
                             /\ since_save.v.filename = filename
                             /\ FileExists(files, filename)
                          THEN Some([since_save.v EXCEPT !.loaded = TRUE])
                          ELSE None
    /\ UNCHANGED <<files, do_update_mouse, trace>>
    /\ RecordFrame

\* The controller closes the connection: record() returns Ok.
ConnectionClosed ==
    /\ session \in {"greeting", "recording"}
    /\ session' = "ok"
    /\ step' = Handled(LoopOf(session), "closed", "", 0, 0, <<>>)
    /\ UNCHANGED <<game, replay, files, do_update_mouse, since_save, trace>>
    /\ RecordFrame

\* A state saved by an earlier session of the same game: one tick in.
EarlierSave ==
    LET g == Frame(Launched(Some(1000)), [request |-> SceneNone, error |-> FALSE, draws |-> 1],
                   <<0, 1, 2, 3>>)
    IN SaveStateFrom(g, NewFrame(ReplayNew(1000, 0), 30))

\* record() is entered after launch: the Replay is new, the greeting awaited.
InitRecord ==
    /\ session = "greeting"
    /\ \E clock \in LaunchClocks :
         /\ game = Launched(clock)
         /\ replay = ReplayNew(UnwrapOr(clock, 0), game.seed)
    /\ files \in [FileNames -> {None, Some(EarlierSave)}]
    /\ files["b"] = None
    /\ do_update_mouse = FALSE
    /\ moment_order \in IterationOrders
    /\ step = Handled("none", "none", "", 0, 0, <<>>)
    /\ since_save = None
    /\ frame_count = 0 /\ trace = <<>> /\ replica = <<>>
    /\ FrameIdle
    /\ launched = "running" /\ objects = <<>> /\ event_holders = <<>>
    /\ custom_draw_objects = {}
    /\ game_assets = <<>> /\ walk = <<>>
    /\ geometry = <<>> /\ query = NoQuery

NextRecord ==
    \/ RecvHello
    \/ RecvOutOfSequence
    \/ RecvAdvance
    \/ RecvSetUpdateMouse
    \/ RecvSave
    \/ RecvLoad
    \/ ConnectionClosed

SpecRecord == InitRecord /\ [][NextRecord]_vars

\* ---- Game::replay

\* A process inside replay(): the Game, the loop's frame counter, the ticks run
\* so far and the iteration order of the process's timeline moment maps.
ReplayEntered(g, rep, order) ==
    [session |-> "replaying",
     game |-> [g EXCEPT !.seed = rep.start_seed, !.clock = Some(rep.start_time)],
     frame_count |-> 0, ticks |-> 0, order |-> order]

\* No second process runs.
NoReplica == [session |-> "none"]

\* The part of one loop iteration before self.frame(): the Frame at the counter,
\* if there is one, sets the seed, the clock and the inputs.
FrameApplied(run, rep) ==
    LET frame == GetFrame(rep, run.frame_count)
        g == run.game
    IN IF ~frame.some THEN g
       ELSE LET reseeded == IF frame.v.new_seed.some
                               THEN [g EXCEPT !.seed = frame.v.new_seed.v] ELSE g
                retimed == IF frame.v.new_time.some
                              THEN [reseeded EXCEPT !.clock = frame.v.new_time] ELSE reseeded
            IN KeyProcessed(retimed, frame.v.inputs)

\* The frame limiter: the spoofed clock moves on by one tick of the room's speed.
ClockAdvanced(g) ==
    IF g.clock.some THEN [g EXCEPT !.clock = Some(g.clock.v + (1000000000 \div g.room_speed))]
    ELSE g

\* One iteration of the loop of run() (mode "run") or of replay() (mode
\* "replay"): the Frame's inputs (replay() only), the tick, the scene change,
\* the close request, then the frame limiter. `close` is what
\* window.close_requested() answers and `early` whether the tick took less than
\* a tick's duration (duration.checked_sub(diff) is Some). The result holds the
\* process afterwards and whether thread::sleep was called.
ModeStep(mode, run, rep, script, load, close, early) ==
    LET applied == IF mode = "replay" THEN FrameApplied(run, rep) ELSE run.game
        ticked == Frame(applied, script, run.order)
        resolved == Resolved(mode, ticked, load)
    IN IF script.error
          THEN [run |-> [run EXCEPT !.session = "error", !.game = ticked, !.ticks = @ + 1],
                slept |-> FALSE]
       ELSE IF resolved.outcome # "continue"
          THEN [run |-> [run EXCEPT !.session = resolved.outcome, !.game = resolved.game,
                                    !.ticks = @ + 1],
                slept |-> FALSE]
       ELSE IF close
          THEN [run |-> [run EXCEPT !.session = "ok",
                                    !.game = RunGameEndEvents(resolved.game),
                                    !.ticks = @ + 1],
                slept |-> FALSE]
       ELSE [run |-> [run EXCEPT !.game = ClockAdvanced(resolved.game),
                                 !.frame_count = IF mode = "replay" THEN @ + 1 ELSE @,
                                 !.ticks = @ + 1],
             slept |-> early]

\* One iteration of replay()'s loop in a game whose scripts do nothing during a
\* room load, with the window left open.
ReplayStep(run, rep, script) == ModeStep("replay", run, rep, script, Quiet, FALSE, FALSE).run

\* What a tick of the first process was: the state its scripts started from,
\* what they did, and the state at the end of the loop iteration.
Ticked(before, script, after, count) ==
    [before |-> before, script |-> script, after |-> after, frame_count |-> count]

\* The scripts are the same in every process: started from the state the first
\* process started its tick from they do what they did there.
SameScripts(before, k, script) == before = trace[k].before => script = trace[k].script

\* One iteration of replay()'s loop in the second process, which follows the
\* first process tick by tick.
ReplicaTick ==
    /\ replica.session = "replaying"
    /\ replica.ticks < Len(trace)
    /\ \E script \in ScriptResults :
         /\ SameScripts(FrameApplied(replica, replay), replica.ticks + 1, script)
         /\ replica' = ReplayStep(replica, replay, script)
    /\ UNCHANGED <<session, game, replay, frame_count, files, do_update_mouse,
                   moment_order, step, since_save, trace>>
    /\ UNCHANGED <<frameVars, indexVars, collisionVars>>

\* ---- a record session, then replay() of its Replay in a freshly launched process

\* A session recorded from launch: no save file exists yet.
InitRecordThenReplay ==
    /\ session = "greeting"
    /\ \E clock \in LaunchClocks :
         /\ game = Launched(clock)
         /\ replay = ReplayNew(UnwrapOr(clock, 0), game.seed)
    /\ files = [f \in FileNames |-> None]
    /\ do_update_mouse = FALSE
    /\ moment_order \in IterationOrders
    /\ step = Handled("none", "none", "", 0, 0, <<>>)
    /\ since_save = None
    /\ frame_count = 0 /\ trace = <<>> /\ replica = NoReplica
    /\ FrameIdle
    /\ launched = "running" /\ objects = <<>> /\ event_holders = <<>>
    /\ custom_draw_objects = {}
    /\ game_assets = <<>> /\ walk = <<>>
    /\ geometry = <<>> /\ query = NoQuery

\* Advance, remembered for the comparison.
RecordedAdvance ==
    /\ replica = NoReplica
    /\ \E keys \in KeyInputs, new_seed \in NewSeeds, instance_requested \in BOOLEAN,
          script \in ScriptResults :
         /\ Advance(keys, new_seed, instance_requested, script)
         /\ trace' = Append(trace, Ticked(InputsApplied(game, keys, new_seed), script,
                                          game', FrameCount(replay')))

\* The Replay recorded so far is given to replay() in a freshly launched process.
ReplayLaunched ==
    /\ replica = NoReplica
    /\ trace # <<>>
    /\ \E clock \in LaunchClocks, order \in IterationOrders :
         replica' = ReplayEntered(Launched(clock), replay, order)
    /\ UNCHANGED <<session, game, replay, frame_count, files, do_update_mouse,
                   moment_order, step, since_save, trace>>
    /\ UNCHANGED <<frameVars, indexVars, collisionVars>>

NextRecordThenReplay ==
    \/ RecvHello
    \/ RecordedAdvance
    \/ ReplayLaunched
    \/ ReplicaTick

SpecRecordThenReplay == InitRecordThenReplay /\ [][NextRecordThenReplay]_vars

\* ---- two processes, each running replay() of the same Replay from the same launch state

\* The Frames a Replay file holds.
ReplayFrames ==
    {[new_seed |-> new_seed, new_time |-> None, inputs |-> keys, events |-> <<>>,
      room_speed |-> RoomSpeeds[RoomOrder[1]]] : new_seed \in NewSeeds, keys \in KeyInputs}

\* The Replays given to replay().
Replays ==
    {[start_time |-> UnwrapOr(clock, 0), start_seed |-> 0, frames |-> frames] :
        clock \in LaunchClocks,
        frames \in UNION {[1..n -> ReplayFrames] : n \in 0..MaxTicks}}

InitTwoReplays ==
    /\ replay \in Replays
    /\ moment_order \in IterationOrders
    /\ \E clock \in LaunchClocks, order \in IterationOrders :
         /\ game = ReplayEntered(Launched(clock), replay, moment_order).game
         /\ replica = ReplayEntered(Launched(clock), replay, order)
    /\ session = "replaying"
    /\ frame_count = 0
    /\ trace = <<>>
    /\ files = [f \in FileNames |-> None]
    /\ do_update_mouse = FALSE
    /\ step = Handled("none", "none", "", 0, 0, <<>>)
    /\ since_save = None
    /\ FrameIdle
    /\ launched = "running" /\ objects = <<>> /\ event_holders = <<>>
    /\ custom_draw_objects = {}
    /\ game_assets = <<>> /\ walk = <<>>
    /\ geometry = <<>> /\ query = NoQuery

\* One iteration of replay()'s loop in the first process.
ReplayTick ==
    /\ session = "replaying"
    /\ Len(trace) < MaxTicks
    /\ \E script \in ScriptResults :
         LET run == [session |-> session, game |-> game, frame_count |-> frame_count,
                     ticks |-> Len(trace), order |-> moment_order]
             next == ReplayStep(run, replay, script)
         IN /\ session' = next.session
            /\ game' = next.game
            /\ frame_count' = next.frame_count
            /\ trace' = Append(trace, Ticked(FrameApplied(run, replay), script, next.game,
                                             next.frame_count))
    /\ UNCHANGED <<replay, files, do_update_mouse, moment_order, step, since_save, replica>>
    /\ UNCHANGED <<frameVars, indexVars, collisionVars>>

NextTwoReplays ==
    \/ ReplayTick
    \/ ReplicaTick

SpecTwoReplays == InitTwoReplays /\ [][NextTwoReplays]_vars

\* ---- the three mode loops, with scripts that act during room loads, and a window

\* The modes main() chooses from.
Modes == {"run", "record", "replay"}

\* What one iteration of a mode's loop was: the game its tick started from (after
\* the inputs were applied), whether a tick ran, what the scripts did in the tick
\* and in the room load after it, what close_requested() answered, whether the
\* frame limiter slept, and the number of ticks so far.
Iterated(mode, before, ticked, script, load, close, slept, n) ==
    [mode |-> mode, before |-> before, ticked |-> ticked, script |-> script, load |-> load,
     close |-> close, slept |-> slept, n |-> n]

\* The ticks run so far.
TicksRun == IF trace = <<>> THEN 0 ELSE trace[1].n

\* The room loads whose scripts can act after a tick: those the mode performs.
LoadsAfter(mode, ticked) ==
    IF ticked.scene_change.kind \in {"Room", "Restart"}
          \/ (ticked.scene_change.kind = "End" /\ mode = "record")
       THEN LoadResults ELSE {Quiet}

\* The Replays given to replay() here: at most one Frame, after which the game
\* runs on without input.
ShortReplays == {rep \in Replays : Len(rep.frames) <= 1}

InitModes ==
    /\ moment_order = <<0, 1, 2, 3>>
    /\ \E mode \in Modes, clock \in LaunchClocks :
         /\ session = CASE mode = "run" -> "running"
                         [] mode = "record" -> "greeting"
                         [] mode = "replay" -> "replaying"
         /\ replay \in IF mode = "replay" THEN ShortReplays
                        ELSE {ReplayNew(UnwrapOr(clock, 0), Launched(clock).seed)}
         /\ game = IF mode = "replay"
                      THEN ReplayEntered(Launched(clock), replay, moment_order).game
                      ELSE Launched(clock)
    /\ frame_count = 0
    /\ trace = <<>>
    /\ replica = NoReplica
    /\ files = [f \in FileNames |-> None]
    /\ do_update_mouse = FALSE
    /\ step = Handled("none", "none", "", 0, 0, <<>>)
    /\ since_save = None
    /\ FrameIdle
    /\ launched = "running" /\ objects = <<>> /\ event_holders = <<>>
    /\ custom_draw_objects = {}
    /\ game_assets = <<>> /\ walk = <<>>
    /\ geometry = <<>> /\ query = NoQuery

\* One iteration of the loop of run() or of replay().
ModeTick ==
    /\ session \in {"running", "replaying"}
    /\ TicksRun < MaxTicks
    /\ LET mode == IF session = "running" THEN "run" ELSE "replay"
           run == [session |-> session, game |-> game, frame_count |-> frame_count,
                   ticks |-> TicksRun, order |-> moment_order]
           before == IF mode = "replay" THEN FrameApplied(run, replay) ELSE game
       IN \E script \in ScriptResults, close \in BOOLEAN, early \in BOOLEAN :
            \E load \in LoadsAfter(mode, Frame(before, script, moment_order)) :
              LET next == ModeStep(mode, run, replay, script, load, close, early)
              IN /\ session' = next.run.session
                 /\ game' = next.run.game
                 /\ frame_count' = next.run.frame_count
                 /\ trace' = <<Iterated(mode, before, TRUE, script, load, close, next.slept,
                                        next.run.ticks)>>
    /\ UNCHANGED <<replay, files, do_update_mouse, moment_order, step, since_save, replica>>
    /\ UNCHANGED <<frameVars, indexVars, collisionVars>>

\* An iteration of record()'s loop that handles Advance (no instance requested).
RecordTick ==
    \E keys \in KeyInputs, new_seed \in NewSeeds, instance_requested \in {FALSE},
       script \in ScriptResults :
      LET before == InputsApplied(game, keys, new_seed)
      IN \E load \in LoadsAfter("record", Frame(before, script, moment_order)) :
           /\ AdvanceWith(keys, new_seed, instance_requested, script, load)
           /\ trace' = <<Iterated("record", before, TRUE, script, load, FALSE, FALSE,
                                  TicksRun + 1)>>

\* The end of an iteration of record()'s loop at which close_requested()
\* answers yes: break Ok(()).
RecordClose ==
    /\ session = "recording"
    /\ session' = "ok"
    /\ trace' = <<Iterated("record", game, FALSE, [request |-> SceneNone, error |-> FALSE,
                                                   draws |-> 1],
                           Quiet, TRUE, FALSE, TicksRun)>>
    /\ UNCHANGED <<game, replay, files, do_update_mouse, step, since_save>>
    /\ RecordFrame

NextModes ==
    \/ ModeTick
    \/ RecvHello
    \/ RecordTick
    \/ RecordClose

SpecModes == InitModes /\ [][NextModes]_vars

\* ===================================================================
\* Game::check_collision_point, _rectangle and _line
\* ===================================================================

\* Real::round of n / d (d > 0): to the nearest whole number, a tie to the even one.
Round(n, d) ==
    LET q == n \div d
        r == n - (q * d)
    IN  IF 2 * r < d THEN q
        ELSE IF 2 * r > d THEN q + 1
        ELSE IF q % 2 = 0 THEN q ELSE q + 1

\* colliders.get(image_index.floor() as usize % colliders.len()): the cast of a
\* negative index saturates to 0, and the remainder is always a valid index.
FrameColliderOf(sprite, inst) ==
    IF sprite.per_frame_colliders
    THEN LET idx == (IF inst.image_index < 0 THEN 0 ELSE inst.image_index)
                       % Len(sprite.colliders)
         IN  Some(sprite.colliders[idx + 1])
    ELSE IF Len(sprite.colliders) > 0 THEN Some(sprite.colliders[1]) ELSE None

\* The point query's map into the mask: (origin + (p - position) / scale).round()
PointCoordinate(origin, p, position, scale) ==
    Round((origin * scale) + (p - position), scale)

\* AABB with the point
PointOutsideBox(inst, x, y) ==
    \/ inst.bbox_right < x
    \/ x < inst.bbox_left
    \/ inst.bbox_bottom < y
    \/ y < inst.bbox_top

\* Game::check_collision_point
CheckCollisionPoint(list, i, x, y, precise) ==
    LET sprite == MaskSprite(list[i])
        inst == UpdateBbox(list[i], sprite)
        value ==
          IF PointOutsideBox(inst, x, y) THEN "false"
          ELSE IF ~precise THEN "true"
          ELSE IF ~sprite.some THEN "false"
          ELSE IF ColliderPanics(sprite.v) THEN "panic"
          ELSE IF ~FrameColliderOf(sprite.v, inst).some THEN "false"
          ELSE IF MaskBit(FrameColliderOf(sprite.v, inst).v,
                          PointCoordinate(sprite.v.origin_x, x, inst.x, inst.image_xscale),
                          PointCoordinate(sprite.v.origin_y, y, inst.y, inst.image_yscale))
               THEN "true"
               ELSE "false"
    IN  [value |-> value, list |-> [list EXCEPT ![i] = inst]]

\* The rectangle spanned by two corners given in any order.
Normalised(x1, y1, x2, y2) ==
    [left |-> IF x1 <= x2 THEN x1 ELSE x2, right |-> IF x1 <= x2 THEN x2 ELSE x1,
     top |-> IF y1 <= y2 THEN y1 ELSE y2, bottom |-> IF y1 <= y2 THEN y2 ELSE y1]

RectOutsideBoxUnordered(inst, rect) ==
    \/ inst.bbox_right < rect.left
    \/ rect.left < inst.bbox_left
    \/ inst.bbox_bottom < rect.top
    \/ rect.top < inst.bbox_top

\* AABB with the rectangle
RectOutsideBox(inst, rect) ==
    \/ inst.bbox_right < rect.left
    \/ rect.right < inst.bbox_left
    \/ inst.bbox_bottom < rect.top
    \/ rect.bottom < inst.bbox_top

\* The pixel loop over the intersection of the box and the rectangle.
RectanglePixels(inst, sprite, collider, rect) ==
    LET intersect_top == IF inst.bbox_top >= rect.top THEN inst.bbox_top ELSE rect.top
        intersect_bottom == IF inst.bbox_bottom <= rect.bottom
                            THEN inst.bbox_bottom ELSE rect.bottom
        intersect_left == IF inst.bbox_left >= rect.left THEN inst.bbox_left ELSE rect.left
        intersect_right == IF inst.bbox_right <= rect.right
                           THEN inst.bbox_right ELSE rect.right
    IN  \E intersect_y \in intersect_top..intersect_bottom :
          \E intersect_x \in intersect_left..intersect_right :
            InstanceCovers(inst, sprite, collider, intersect_x, intersect_y)

\* Game::check_collision_rectangle
CheckCollisionRectangle(list, i, x1, y1, x2, y2, precise) ==
    LET sprite == MaskSprite(list[i])
        inst == UpdateBbox(list[i], sprite)
        rect == Normalised(x1, y1, x2, y2)
        value ==
          IF RectOutsideBox(inst, rect) THEN "false"
          ELSE IF ~precise THEN "true"
          ELSE IF ~sprite.some THEN "false"
          ELSE IF ColliderPanics(sprite.v) THEN "panic"
          ELSE IF ~FrameColliderOf(sprite.v, inst).some THEN "false"
          ELSE IF RectanglePixels(inst, sprite.v, FrameColliderOf(sprite.v, inst).v, rect)
               THEN "true"
               ELSE "false"
    IN  [value |-> value, list |-> [list EXCEPT ![i] = inst]]

\* A Real the line query computes is kept exact, as <<numerator, denominator>>
\* with a positive denominator.
Whole(n) == <<n, 1>>
Less(a, b) == a[1] * b[2] < b[1] * a[2]
AtLeast(a, b) == a[1] * b[2] >= b[1] * a[2]
Abs(n) == IF n < 0 THEN -n ELSE n

\* The segment, left end first: if x2 < x1 { (x2, y2, x1, y1) } else { (x1, y1, x2, y2) }
LeftFirst(x1, y1, x2, y2) ==
    IF x2 < x1 THEN [x1 |-> x2, y1 |-> y2, x2 |-> x1, y2 |-> y1]
               ELSE [x1 |-> x1, y1 |-> y1, x2 |-> x2, y2 |-> y2]

\* Truncate the segment to the box horizontally; the ends' y become fractions.
ClipLeft(seg, bbox_left) ==
    IF seg.x1 < bbox_left
    THEN [seg EXCEPT
            !.y1 = << ((seg.y2 - seg.y1) * (bbox_left - seg.x1)) + (seg.y1 * (seg.x2 - seg.x1)),
                      seg.x2 - seg.x1 >>,
            !.y2 = Whole(seg.y2),
            !.x1 = bbox_left]
    ELSE [seg EXCEPT !.y1 = Whole(seg.y1), !.y2 = Whole(seg.y2)]

\* y2 = (y2 - y1) * (new_x2 - x2) / (x2 - x1) + y2, with the y1 and x1 already truncated
ClipRight(seg, new_x2) ==
    IF seg.x2 > new_x2
    THEN LET dy == << (seg.y2[1] * seg.y1[2]) - (seg.y1[1] * seg.y2[2]), seg.y1[2] * seg.y2[2] >>
             den == dy[2] * (seg.x2 - seg.x1)
         IN  [seg EXCEPT
                !.y2 = << (dy[1] * (new_x2 - seg.x2) * seg.y2[2]) + (seg.y2[1] * den),
                          den * seg.y2[2] >>,
                !.x2 = new_x2]
    ELSE seg

\* The truncated segment lies wholly above or wholly below the box.
MissesBoxVertically(seg, bbox_top, bbox_bottom) ==
    \/ Less(seg.y1, Whole(bbox_top)) /\ Less(seg.y2, Whole(bbox_top))
    \/ AtLeast(seg.y1, Whole(bbox_bottom + 1)) /\ AtLeast(seg.y2, Whole(bbox_bottom + 1))

\* The sample points of the rounded segment, as the loop "for i in 0..point_count"
\* visits them: each a pair of exact coordinates.
LinePoints(seg) ==
    LET x1 == seg.x1
        y1 == Round(seg.y1[1], seg.y1[2])
        x2 == seg.x2
        y2 == Round(seg.y2[1], seg.y2[2])
        iter_vert == Abs(x2 - x1) < Abs(y2 - y1)
        point_count == (IF iter_vert THEN y2 - y1 ELSE x2 - x1) + 1
        swap == iter_vert /\ y2 < y1
        ax == IF swap THEN x2 ELSE x1
        ay == IF swap THEN y2 ELSE y1
        bx == IF swap THEN x1 ELSE x2
        by == IF swap THEN y1 ELSE y2
    IN  [i \in 0..(point_count - 1) |->
           IF point_count = 1 THEN << Whole(ax), Whole(ay) >>
           ELSE IF iter_vert
                THEN << << (ax * (by - ay)) + (i * (bx - ax)), by - ay >>, Whole(ay + i) >>
                ELSE << Whole(ax + i), << (ay * (bx - ax)) + (i * (by - ay)), bx - ax >> >>]

\* origin + ((p - position) / scale).floor() for an exact p
LocalOfExact(origin, p, position, scale) ==
    origin + FloorDiv(p[1] - (position * p[2]), p[2] * scale)

\* Some sample point of the segment lies on a set pixel of the mask.
LinePixels(inst, sprite, collider, seg) ==
    LET points == LinePoints(seg)
    IN  \E i \in DOMAIN points :
            MaskBit(collider,
                    LocalOfExact(sprite.origin_x, points[i][1], inst.x, inst.image_xscale),
                    LocalOfExact(sprite.origin_y, points[i][2], inst.y, inst.image_yscale))

\* AABB with the segment's rectangle: the box is taken one unit larger on its
\* right and bottom edges.
LineOutsideBox(inst, rect) ==
    \/ inst.bbox_right + 1 <= rect.left
    \/ rect.right < inst.bbox_left
    \/ inst.bbox_bottom + 1 <= rect.top
    \/ rect.bottom < inst.bbox_top

\* Game::check_collision_line
CheckCollisionLine(list, i, x1, y1, x2, y2, precise) ==
    LET sprite == MaskSprite(list[i])
        inst == UpdateBbox(list[i], sprite)
        seg == ClipRight(ClipLeft(LeftFirst(x1, y1, x2, y2), inst.bbox_left),
                         inst.bbox_right + 1)
        value ==
          IF LineOutsideBox(inst, Normalised(x1, y1, x2, y2)) THEN "false"
          ELSE IF MissesBoxVertically(seg, inst.bbox_top, inst.bbox_bottom) THEN "false"
          ELSE IF ~precise THEN "true"
          ELSE IF ~sprite.some THEN "false"
          ELSE IF ColliderPanics(sprite.v) THEN "panic"
          ELSE IF ~FrameColliderOf(sprite.v, inst).some THEN "false"
          ELSE IF LinePixels(inst, sprite.v, FrameColliderOf(sprite.v, inst).v, seg)
               THEN "true"
               ELSE "false"
    IN  [value |-> value, list |-> [list EXCEPT ![i] = inst]]


\* <<sprite_index, mask_index, image_index>> of the instance the queries probe:
\* the looks above, a frame index below zero and one past the last collider, a
\* sprite index past the end of the table, and the per-frame sprite without
\* a collider.
QueryLooks == Looks \cup {<<2, -1, -1>>, <<2, -1, 3>>, <<7, -1, 0>>, <<6, -1, 0>>}

\* image_xscale and image_yscale of the probed instance
Scales == {1, 3}

\* The coordinates a query is asked about.
QueryCoords == {-1, 2, 9, 29}

\* A room with the probed instance and a solid square beside it.
InitQueries ==
    /\ \E place \in {<<0, 0>>, <<5, 0>>}, look \in QueryLooks, sx \in Scales, sy \in Scales :
         geometry = << [PlacedInstance(place, look) EXCEPT !.image_xscale = sx,
                                                            !.image_yscale = sy],
                       PlacedInstance(<<5, 5>>, <<0, -1, 0>>) >>
    /\ query = NoQuery
    /\ FrameIdle
    /\ launched = "running" /\ objects = <<>> /\ event_holders = <<>>
    /\ custom_draw_objects = {}
    /\ game_assets = <<>> /\ walk = <<>>
    /\ SessionIdle

\* A script asks whether an instance covers a point.
PointQuery ==
    /\ query = NoQuery
    /\ \E i \in DOMAIN geometry, x \in QueryCoords, y \in QueryCoords, precise \in BOOLEAN :
         LET r == CheckCollisionPoint(geometry, i, x, y, precise)
         IN  /\ geometry' = r.list
             /\ query' = [kind |-> "point", i1 |-> i, i2 |-> 0, value |-> r.value,
                          x1 |-> x, y1 |-> y, x2 |-> x, y2 |-> y, precise |-> precise]
    /\ UNCHANGED <<frameVars, indexVars, sessionVars>>

\* A script asks whether an instance meets a rectangle.
RectangleQuery ==
    /\ query = NoQuery
    /\ \E i \in DOMAIN geometry, x1 \in QueryCoords, y1 \in QueryCoords,
          x2 \in QueryCoords, y2 \in QueryCoords, precise \in BOOLEAN :
         LET r == CheckCollisionRectangle(geometry, i, x1, y1, x2, y2, precise)
         IN  /\ geometry' = r.list
             /\ query' = [kind |-> "rectangle", i1 |-> i, i2 |-> 0, value |-> r.value,
                          x1 |-> x1, y1 |-> y1, x2 |-> x2, y2 |-> y2, precise |-> precise]
    /\ UNCHANGED <<frameVars, indexVars, sessionVars>>

\* A script asks whether an instance meets a line segment.
LineQuery ==
    /\ query = NoQuery
    /\ \E i \in DOMAIN geometry, x1 \in QueryCoords, y1 \in QueryCoords,
          x2 \in QueryCoords, y2 \in QueryCoords, precise \in BOOLEAN :
         LET r == CheckCollisionLine(geometry, i, x1, y1, x2, y2, precise)
         IN  /\ geometry' = r.list
             /\ query' = [kind |-> "line", i1 |-> i, i2 |-> 0, value |-> r.value,
                          x1 |-> x1, y1 |-> y1, x2 |-> x2, y2 |-> y2, precise |-> precise]
    /\ UNCHANGED <<frameVars, indexVars, sessionVars>>

NextQueries ==
    \/ PointQuery
    \/ RectangleQuery
    \/ LineQuery
    \/ CheckCollisionQuery

SpecQueries == InitQueries /\ [][NextQueries]_vars

\* ------------------------------------------------------------------
\* Properties of Game::frame
\* ------------------------------------------------------------------

\* The phases of a tick, in the order the scheduler is specified to run them.
PhaseOrder ==
    <<"snapshot", "begin_step_triggers", "begin_step", "timelines", "alarms",
      "keyboard", "mouse", "key_press", "key_release", "step_triggers", "step",
      "movement", "bounds", "collisions", "end_step_triggers", "end_step",
      "particles", "remove_deleted", "draw", "backgrounds", "animation", "caption">>

\* The phases C1 lists: begin-step triggers up to the end-step event.
ListedPhases ==
    {"begin_step_triggers", "begin_step", "timelines", "alarms", "keyboard",
     "mouse", "key_press", "key_release", "step_triggers", "step", "movement",
     "bounds", "collisions", "end_step_triggers", "end_step"}

\* C1: once a scene change has become pending during one of the listed phases
\* of a tick, no later phase of that tick executes (the list of executed phases
\* does not grow any more).
C1_NoPhaseAfterSceneChange ==
    [][(requested_in \in ListedPhases /\ scene_change # SceneNone /\ pc # requested_in)
          => phases' = phases]_vars

\* C2: a tick that runs to completion (frame() returns Ok with no scene change
\* pending, or after its last phase) has executed the 22 phases exactly once
\* each, in the specified order.
C2_CompleteTickRunsAllPhasesInOrder ==
    (pc = "returned" /\ result = "ok"
        /\ (scene_change = SceneNone \/ "caption" \in Range(phases)))
    => phases = PhaseOrder

\* C2 witness: a completed tick.
C2_Witness ==
    pc = "returned" /\ result = "ok" /\ scene_change = SceneNone /\ Len(phases) = 22

StoreIds(list) == {list[k].id : k \in 1..Len(list)}

BeforeDeletionPass ==
    {"snapshot"} \cup ListedPhases \cup {"particles"}

NoRemovalBeforeDeletionPass ==
    pc \in BeforeDeletionPass => StoreIds(instance_list) \subseteq StoreIds(instance_list')

\* C3: within a tick no instance leaves the store before the deletion pass, and
\* when the draw phase begins no instance marked Deleted in the earlier phases
\* of the tick (and no instance in state Deleted at all) is in the store.
C3_DeferredDeletion ==
    /\ [][NoRemovalBeforeDeletionPass]_vars
    /\ [](pc = "draw" =>
            /\ marked \cap StoreIds(instance_list) = {}
            /\ \A k \in 1..Len(instance_list) : instance_list[k].state # "Deleted")

\* C3 witness: the draw phase begins after an instance was marked and removed,
\* while another instance is still in the store.
C3_Witness ==
    pc = "draw" /\ marked # {} /\ Len(instance_list) = 1

MomentCount(id, m) ==
    Cardinality({k \in 1..Len(moments_run) :
                    moments_run[k].inst = id /\ moments_run[k].moment = m})

MomentsOfInstance(id) == {k \in 1..Len(moments_run) : moments_run[k].inst = id}

\* C4: when the timeline phase of a tick has completed, every instance whose
\* timeline was running on an existing timeline has had timeline_speed added to
\* its cursor once and has executed exactly the moments m with
\* old cursor <= m < new cursor, once each; with a speed <= 0 none executed;
\* an instance whose timeline was not running kept its cursor.
C4_TimelineAdvance ==
    pc = "alarms" =>
      /\ Len(instance_list) = Len(tl_before)
      /\ \A k \in 1..Len(tl_before) :
           LET b == tl_before[k]
               a == instance_list[k]
           IN  /\ a.id = b.id
               /\ (b.timeline_running /\ TimelineExists(b.timeline_index)) =>
                    /\ a.timeline_position = b.timeline_position + b.timeline_speed
                    /\ \A m \in Range(TimelineMoments[b.timeline_index]) :
                         MomentCount(b.id, m) =
                            IF b.timeline_position <= m /\ m < a.timeline_position
                            THEN 1 ELSE 0
                    /\ \A j \in MomentsOfInstance(b.id) :
                         moments_run[j].moment \in Range(TimelineMoments[b.timeline_index])
                    /\ (b.timeline_speed <= 0 => MomentsOfInstance(b.id) = {})
               /\ ~b.timeline_running =>
                    /\ a.timeline_position = b.timeline_position
                    /\ MomentsOfInstance(b.id) = {}

\* C4 witness: the timeline phase completed and one instance executed two
\* moments in one tick while another one was not running.
C4_Witness ==
    /\ pc = "alarms"
    /\ \E k \in 1..Len(tl_before) :
         /\ tl_before[k].timeline_running
         /\ Cardinality(MomentsOfInstance(tl_before[k].id)) = 2
    /\ \E k \in 1..Len(tl_before) : ~tl_before[k].timeline_running

\* ------------------------------------------------------------------
\* Properties of the event index
\* ------------------------------------------------------------------

RECURSIVE AncestorsOrSelf(_, _)
\* i and the objects on its parent chain, read from parent_index alone.
AncestorsOrSelf(objs, i) ==
    IF i < 0 \/ ~ObjectExists(objs, i) THEN {}
    ELSE {i} \cup AncestorsOrSelf(objs, objs[i].parent_index)

\* p together with all its transitive children.
Descendants(objs, p) ==
    {i \in ObjectSlots : objs[i].exists /\ p \in AncestorsOrSelf(objs, i)}

Declarers(objs, cat, sub) ==
    {o \in ObjectSlots : objs[o].exists /\ <<cat, sub>> \in objs[o].events}

\* The ids listed for an event, as a set.
Listed(cat, sub) ==
    UNION {Range(event_holders[cat][i].list) :
              i \in {j \in 1..Len(event_holders[cat]) : event_holders[cat][j].key = sub}}

HasKey(cat, sub) == \E i \in 1..Len(event_holders[cat]) : event_holders[cat][i].key = sub

NonCollision == Range(Categories) \ {"COLLISION"}

\* C5: for every category other than collision and every sub-key, the index
\* list holds exactly the union of the descendant sets of the objects that
\* declare a handler for that event.
C5_IndexIsUnionOfDescendants ==
    launched = "running" =>
      \A cat \in NonCollision, sub \in SubKeys :
         /\ Listed(cat, sub) = UNION {Descendants(objects, o) : o \in Declarers(objects, cat, sub)}
         /\ HasKey(cat, sub) <=> Declarers(objects, cat, sub) # {}

\* C5 witness: a draw handler declared by a parent is listed for its child.
C5_Witness ==
    /\ launched = "running"
    /\ \E o \in Declarers(objects, "DRAW", 0) :
         \E c \in Descendants(objects, o) \ {o} :
            /\ c \notin Declarers(objects, "DRAW", 0)
            /\ c \in Listed("DRAW", 0)

InheritsHandler(objs, x, cat, sub) ==
    \E a \in AncestorsOrSelf(objs, x) : <<cat, sub>> \in objs[a].events

\* C6 as claimed: in every category, collision included, an id is listed for an
\* event only if the object or one of its ancestors declares that event.
C6_ListedOnlyIfDeclaredOrInherited ==
    launched = "running" =>
      \A cat \in Range(Categories), sub \in SubKeys :
         \A x \in Listed(cat, sub) : InheritsHandler(objects, x, cat, sub)

\* a (or an ancestor of a) declares a collision handler against b (or an
\* ancestor of b; b itself when b names no object).
CollisionDeclaredBetween(objs, a, b) ==
    \E h \in AncestorsOrSelf(objs, a), t \in AncestorsOrSelf(objs, b) \cup {b} :
        <<"COLLISION", t>> \in objs[h].events

\* C6 amended: outside the collision category an id is listed for an event only
\* if the object or an ancestor declares it; in the collision category x is
\* listed under sub-key k only if x >= k and a collision handler is declared or
\* inherited by one of x and k against the other.
C6_ListedOnlyIfDeclaredInheritedOrSwapped ==
    launched = "running" =>
      /\ \A cat \in NonCollision, sub \in SubKeys :
            \A x \in Listed(cat, sub) : InheritsHandler(objects, x, cat, sub)
      /\ \A k \in SubKeys :
            \A x \in Listed("COLLISION", k) :
               /\ x >= k
               /\ \/ CollisionDeclaredBetween(objects, x, k)
                  \/ CollisionDeclaredBetween(objects, k, x)

\* C6 witness: the collision list of k holds an object x that neither declares
\* nor inherits a handler against k (k's side declares it), next to a
\* non-collision list holding an inheriting child.
C6_Witness ==
    /\ launched = "running"
    /\ \E k \in SubKeys : \E x \in Listed("COLLISION", k) :
          /\ ~InheritsHandler(objects, x, "COLLISION", k)
          /\ CollisionDeclaredBetween(objects, k, x)

StrictlyAscending(list) == \A i \in 1..(Len(list) - 1) : list[i] < list[i + 1]

\* C7: after fill_event_holders every list of every category is strictly
\* ascending and the sub-keys of every category map are in ascending order.
C7_ListsAndKeysSorted ==
    launched = "running" =>
      \A cat \in Range(Categories) :
         /\ StrictlyAscending([i \in 1..Len(event_holders[cat]) |-> event_holders[cat][i].key])
         /\ \A i \in 1..Len(event_holders[cat]) :
               StrictlyAscending(event_holders[cat][i].list)

\* C7 witness: an index with a map of two sub-keys and a list of two ids.
C7_Witness ==
    /\ launched = "running"
    /\ \E cat \in Range(Categories) :
         /\ Len(event_holders[cat]) >= 2
         /\ \E i \in 1..Len(event_holders[cat]) : Len(event_holders[cat][i].list) >= 2

\* C8: in the collision map every id stored under sub-key k is >= k, no sub-key
\* maps to an empty list, and two distinct ids are paired in one direction at most.
C8_CollisionPairsUnderSmallerId ==
    launched = "running" =>
      /\ \A i \in 1..Len(event_holders["COLLISION"]) :
            LET e == event_holders["COLLISION"][i]
            IN  e.list # <<>> /\ \A x \in Range(e.list) : x >= e.key
      /\ \A a \in SubKeys, b \in SubKeys :
            a # b => ~(b \in Listed("COLLISION", a) /\ a \in Listed("COLLISION", b))

\* C8 witness: a pair of distinct objects is recorded, under the smaller id,
\* although the handler was declared by the smaller id against the larger.
C8_Witness ==
    /\ launched = "running"
    /\ \E a \in ObjectSlots, b \in ObjectSlots :
         /\ a < b
         /\ <<"COLLISION", b>> \in objects[a].events
         /\ b \in Listed("COLLISION", a)

Min(a, b) == IF a < b THEN a ELSE b
Max(a, b) == IF a < b THEN b ELSE a

\* C9: when H declares a collision handler against an existing object T, the
\* index holds the pair {h, t} for every descendant h of H and t of T.
C9_CollisionSymmetryUnderInheritance ==
    launched = "running" =>
      \A H \in ObjectSlots, T \in ObjectSlots :
         (objects[H].exists /\ objects[T].exists /\ <<"COLLISION", T>> \in objects[H].events)
         => \A h \in Descendants(objects, H), t \in Descendants(objects, T) :
               Max(h, t) \in Listed("COLLISION", Min(h, t))

\* C9 witness: holder and target are different objects and both have a child.
C9_Witness ==
    /\ launched = "running"
    /\ \E H \in ObjectSlots, T \in ObjectSlots :
         /\ H # T
         /\ objects[H].exists /\ objects[T].exists
         /\ <<"COLLISION", T>> \in objects[H].events
         /\ Descendants(objects, H) # {H}
         /\ Descendants(objects, T) # {T}

\* ------------------------------------------------------------------
\* Properties of Game::check_collision
\* ------------------------------------------------------------------

\* The instance collides through the fully solid 10x10 mask.
UsesSolidMask(inst) ==
    /\ MaskSprite(inst).some
    /\ ~ColliderPanics(MaskSprite(inst).v)
    /\ ColliderOf(MaskSprite(inst).v, inst) = Some(SolidMask)
    /\ inst.image_angle = 0 /\ inst.image_xscale = 1 /\ inst.image_yscale = 1

\* The last query was check_collision on two distinct instances with solid masks.
SolidPairAsked ==
    /\ query.kind = "check_collision"
    /\ query.i1 # query.i2
    /\ UsesSolidMask(geometry[query.i1])
    /\ UsesSolidMask(geometry[query.i2])

\* Where the two instances of the last query stand.
AskedPlaces ==
    {<<geometry[query.i1].x, geometry[query.i1].y>>,
     <<geometry[query.i2].x, geometry[query.i2].y>>}

\* C10 (as stated): two distinct instances with fully solid 10x10 masks, angle 0
\* and scale 1: placed at (0,0) and (5,5), check_collision returns true; placed
\* at (0,0) and (20,20), it returns false.
C10_SolidMasksScenario ==
    SolidPairAsked =>
        /\ (AskedPlaces = {<<0, 0>>, <<5, 5>>} => query.value = "true")
        /\ (AskedPlaces = {<<0, 0>>, <<20, 20>>} => query.value = "false")

\* The two masks of the last query hang on their instances by the same origin.
SameOrigin ==
    /\ MaskSprite(geometry[query.i1]).v.origin_x = MaskSprite(geometry[query.i2]).v.origin_x
    /\ MaskSprite(geometry[query.i1]).v.origin_y = MaskSprite(geometry[query.i2]).v.origin_y

\* C10 (amended): two distinct instances with fully solid 10x10 masks of the
\* same origin, angle 0 and scale 1: placed at (0,0) and (5,5), check_collision
\* returns true; placed at (0,0) and (20,20), it returns false.
C10_SolidMasksSameOrigin ==
    (SolidPairAsked /\ SameOrigin) =>
        /\ (AskedPlaces = {<<0, 0>>, <<5, 5>>} => query.value = "true")
        /\ (AskedPlaces = {<<0, 0>>, <<20, 20>>} => query.value = "false")

\* A query on a solid pair of one origin at (0,0) and (5,5) was answered true.
C10_Witness ==
    /\ SolidPairAsked
    /\ SameOrigin
    /\ AskedPlaces = {<<0, 0>>, <<5, 5>>}
    /\ query.value = "true"

\* The far case happens too: a solid pair at (0,0) and (20,20), answered false.
C10_FarPairAsked ==
    /\ SolidPairAsked
    /\ SameOrigin
    /\ AskedPlaces = {<<0, 0>>, <<20, 20>>}
    /\ query.value = "false"

\* ------------------------------------------------------------------
\* Properties of the collision queries
\* ------------------------------------------------------------------

\* The last query returned a boolean.
Returned == query.value \in {"true", "false"}

\* The instance has no mask, or a mask without a set pixel.
NoSetPixel(inst) ==
    \/ ~MaskSprite(inst).some
    \/ \A c \in Range(MaskSprite(inst).v.colliders) : \A k \in DOMAIN c.data : ~c.data[k]

BoxMeetsRectangle ==
    LET inst == geometry[query.i1] IN
    /\ Max(inst.bbox_left, Min(query.x1, query.x2))
         <= Min(inst.bbox_right, Max(query.x1, query.x2))
    /\ Max(inst.bbox_top, Min(query.y1, query.y2))
         <= Min(inst.bbox_bottom, Max(query.y1, query.y2))

\* What the same rectangle query returns with precise = false.
CoarseAnswer ==
    CheckCollisionRectangle(geometry, query.i1, query.x1, query.y1,
                            query.x2, query.y2, FALSE).value

\* C12: check_collision_rectangle with precise = false returns exactly the box
\* overlap test between the instance's bounding box and the rectangle normalised
\* from its two corners, and precise = true returns true only if precise = false
\* returns true.
C12_CoarseRectangleIsBoxTest ==
    query.kind = "rectangle" =>
        /\ (~query.precise => (query.value = "true" <=> BoxMeetsRectangle))
        /\ (~query.precise => Returned)
        /\ (query.precise /\ query.value = "true" => CoarseAnswer = "true")

\* A coarse rectangle query, its corners given bottom-right first, answered true.
C12_Witness ==
    /\ query.kind = "rectangle"
    /\ ~query.precise
    /\ query.x1 > query.x2 /\ query.y1 > query.y2
    /\ query.value = "true"

\* A precise rectangle query answered false where the coarse one answers true.
C12_PreciseIsStricter ==
    /\ query.kind = "rectangle"
    /\ query.precise
    /\ query.value = "false"
    /\ CoarseAnswer = "true"

\* The mask an instance shows: the collider of its frame, if it has one.
ShownMask(inst) ==
    LET sprite == MaskSprite(inst) IN
    IF ~sprite.some \/ sprite.v.colliders = <<>> THEN {}
    ELSE IF sprite.v.per_frame_colliders
         THEN {sprite.v.colliders[(inst.image_index % Len(sprite.v.colliders)) + 1]}
         ELSE {sprite.v.colliders[1]}

\* The set bits of a mask, as <<column, row>> pairs.
SetBits(c) ==
    {m \in (0..(c.width - 1)) \X (0..(c.height - 1)) : c.data[(m[2] * c.width) + m[1] + 1]}

\* The screen pixels under a set bit of the instance's mask, at scale 1 and
\* angle 0: the mask laid down with its origin on the instance's position.
CoveredPixels(inst) ==
    UNION { { << inst.x - MaskSprite(inst).v.origin_x + m[1],
                 inst.y - MaskSprite(inst).v.origin_y + m[2] >> : m \in SetBits(c) }
            : c \in ShownMask(inst) }

\* The pixels inside both instances' boxes; empty when the boxes do not overlap.
BoxIntersection(a, b) ==
    (Max(a.bbox_left, b.bbox_left)..Min(a.bbox_right, b.bbox_right))
        \X (Max(a.bbox_top, b.bbox_top)..Min(a.bbox_bottom, b.bbox_bottom))

\* C13: at integer positions, angle 0 and scale 1, check_collision(a, b) is true
\* if and only if a and b are different handles, their boxes overlap and some
\* pixel inside the intersection of the boxes maps to a set bit in both masks;
\* check_collision(a, a) is false and check_collision(a, b) = check_collision(b, a).
C13_CollisionIsSharedSetPixel ==
    query.kind = "check_collision" =>
        LET a == geometry[query.i1]
            b == geometry[query.i2]
        IN  /\ Returned
            /\ query.value = "true" <=>
                 /\ query.i1 # query.i2
                 /\ BoxIntersection(a, b) # {}
                 /\ BoxIntersection(a, b) \cap CoveredPixels(a) \cap CoveredPixels(b) # {}
            /\ (query.i1 = query.i2 => query.value = "false")
            /\ CheckCollision(geometry, query.i2, query.i1).value = query.value

\* Two instances, one of them showing the diagonal mask, were found to collide.
C13_Witness ==
    /\ query.kind = "check_collision"
    /\ query.i1 # query.i2
    /\ DiagonalMask \in ShownMask(geometry[query.i1])
    /\ query.value = "true"

\* Two masks with set pixels whose boxes overlap, found not to collide.
C13_BoxesOverlapOnly ==
    /\ query.kind = "check_collision"
    /\ query.i1 # query.i2
    /\ BoxIntersection(geometry[query.i1], geometry[query.i2]) # {}
    /\ CoveredPixels(geometry[query.i1]) # {}
    /\ CoveredPixels(geometry[query.i2]) # {}
    /\ query.value = "false"

\* C14: the point query uses the same screen-to-mask transform as the rectangle
\* query: for every instance and every point (x, y), check_collision_point(inst,
\* x, y, precise) equals check_collision_rectangle(inst, x, y, x, y, precise).
C14_PointIsDegenerateRectangle ==
    query.kind = "point" =>
        query.value = CheckCollisionRectangle(geometry, query.i1, query.x1, query.y1,
                                              query.x1, query.y1, query.precise).value

\* ------------------------------------------------------------------
\* Properties of Game::record
\* ------------------------------------------------------------------

\* The last message was handled in the main loop and record() went on.
Answered(message) ==
    step.in_loop = "main" /\ step.message = message /\ session = "recording"

\* The last message was received by the main loop of record().
InMainLoop(messages) == step.in_loop = "main" /\ step.message \in messages

\* C15 (as stated): after the handshake every Advance runs exactly one tick,
\* adds exactly one Frame and is answered by exactly one Update reporting the
\* grown frame count; every Load is answered by exactly one Update and runs no
\* tick; Save and SetUpdateMouse run no tick, add no Frame and send no Update.
C15_EveryMessageAnswered ==
    /\ InMainLoop({"Advance"}) =>
         /\ step.ticks = 1 /\ step.frames = 1 /\ Len(step.updates) = 1
         /\ step.updates[1].frame_count = FrameCount(replay)
    /\ InMainLoop({"Load"}) => step.ticks = 0 /\ Len(step.updates) = 1
    /\ InMainLoop({"Save", "SetUpdateMouse"}) =>
         step.ticks = 0 /\ step.frames = 0 /\ step.updates = <<>>

\* C15 (amended): the same for every Advance whose tick succeeds and every Load
\* whose file can be read; an Advance whose tick fails and a Load whose file is
\* missing end record() with the error and are not answered.
C15_SuccessfulMessageAnswered ==
    /\ Answered("Advance") =>
         /\ step.ticks = 1 /\ step.frames = 1 /\ Len(step.updates) = 1
         /\ step.updates[1].frame_count = FrameCount(replay)
    /\ Answered("Load") => step.ticks = 0 /\ Len(step.updates) = 1
    /\ InMainLoop({"Advance", "Load"}) /\ session = "error" => step.updates = <<>>
    /\ InMainLoop({"Save", "SetUpdateMouse"}) =>
         step.ticks = 0 /\ step.frames = 0 /\ step.updates = <<>>

\* An Advance whose tick changed the room was answered, after a Save was handled.
C15_Witness ==
    /\ Answered("Advance") /\ game.room = 1 /\ FrameCount(replay) = 2
    /\ since_save.some /\ Len(step.updates) = 1

\* An Advance whose tick failed: record() returned the error.
C15_FailedTick == InMainLoop({"Advance"}) /\ session = "error"

\* A step in which record() handles the Hello it waits for.
HelloStep == session = "greeting" /\ step'.in_loop = "greeting" /\ step'.message = "Hello"

\* What C16 says of such a step.
HelloCreatesOrLoads ==
    LET f == step'.filename
    IN /\ IF files[f].some
             THEN /\ game' = files[f].v.game
                  /\ replay' = files[f].v.replay
                  /\ files' = files
             ELSE /\ files'[f] = Some([game |-> game, replay |-> replay])
                  /\ \A other \in FileNames \ {f} : files'[other] = files[other]
                  /\ replay.frames = <<>>
                  /\ game' = game /\ replay' = replay
       /\ Len(step'.updates) = 1
       /\ step'.updates[1].frame_count = FrameCount(replay')
       /\ step'.updates[1].seed = game'.seed
       /\ step'.ticks = 0

C16_Created ==
    /\ step.message = "Hello" /\ session = "recording"
    /\ game = Launched(None) /\ files["a"] = Some(SaveStateFrom(game, replay))

\* A step in which a message arrives out of sequence: anything but Hello while
\* record() waits for the greeting, or a Hello in the main loop.
OutOfSequenceStep ==
    \/ /\ session = "greeting" /\ step'.in_loop = "greeting"
       /\ step'.message \in Messages \ {"Hello"}
    \/ /\ session = "recording" /\ step'.in_loop = "main"
       /\ step'.message = "Hello"

\* C17: an out-of-sequence message makes record() return an error without a
\* tick, without an Update and without a change of the simulation state.
C17_OutOfSequenceEndsSession ==
    [][OutOfSequenceStep =>
        /\ session' = "error"
        /\ step'.ticks = 0 /\ step'.updates = <<>>
        /\ game' = game /\ replay' = replay /\ files' = files]_vars

\* A second Hello arrived after a tick had been recorded: record() returned an error.
C17_Witness ==
    /\ session = "error" /\ step.in_loop = "main" /\ step.message = "Hello"
    /\ FrameCount(replay) > 0

\* An Advance arrived before any Hello: record() returned an error.
C17_BeforeGreeting ==
    session = "error" /\ step.in_loop = "greeting" /\ step.message = "Advance"

\* A step that loads the file of the last Save, only Advances having come between.
LoadAfterSaveStep ==
    /\ since_save.some /\ ~since_save.v.loaded
    /\ step'.in_loop = "main" /\ step'.message = "Load"
    /\ step'.filename = since_save.v.filename

\* The first Advance after such a Load.
AdvanceAfterLoadStep ==
    /\ since_save.some /\ since_save.v.loaded
    /\ step'.in_loop = "main" /\ step'.message = "Advance"

C18_AdvancedAfterLoad ==
    /\ Answered("Advance") /\ ~since_save.some /\ FrameCount(replay) = 2
    /\ files["a"].some /\ FrameCount(files["a"].v.replay) = 1
    /\ SubSeq(replay.frames, 1, 1) = files["a"].v.replay.frames

\* ------------------------------------------------------------------
\* Properties of Game::record against Game::replay
\* ------------------------------------------------------------------

\* The simulation state C19 and C20 compare.
SimState(g) == [instances |-> g.instances, seed |-> g.seed, clock |-> g.clock, room |-> g.room]

\* The second process has run at least one tick.
ReplicaTicked == replica.session \in {"replaying", "ok", "error"} /\ replica.ticks >= 1

\* C19: after each of its ticks, replay() of the Replay a record session captured
\* is in the simulation state (instances, seed, spoofed clock, room, frame
\* count) the session was in after the same tick.
C19_RecordReplayEquivalence ==
    ReplicaTicked =>
        /\ SimState(replica.game) = SimState(trace[replica.ticks].after)
        /\ replica.frame_count = trace[replica.ticks].frame_count

\* C20: two executions of replay() from the same launch state with the same
\* Replay have executed the same events in the same order and hold the same
\* instance state after every tick.
C20_ReplayDeterminism ==
    ReplicaTicked =>
        SimState(replica.game) = SimState(trace[replica.ticks].after)

\* ------------------------------------------------------------------
\* Properties of Game::launch
\* ------------------------------------------------------------------

\* An existing object whose parent index is not negative and names no object.
BrokenParent(objs) ==
    \E i \in ObjectSlots :
        /\ objs[i].exists /\ objs[i].parent_index >= 0
        /\ ~ObjectExists(objs, objs[i].parent_index)

\* The load-time failures C24 lists.
LoadTimeFailure ==
    \/ game_assets.room_order = <<>>
    \/ ~RoomExists(Head(game_assets.room_order))
    \/ BrokenParent(objects)
    \/ game_assets.compile # "none"
    \/ game_assets.pack # "none"

\* C24: with any of the listed load-time failures, a launch that has ended has
\* returned an Error value: it has not built a Game and has not ended otherwise.
C24_NoPartialLaunch ==
    (launched \in LaunchEnded /\ LoadTimeFailure) => launched = "failed"

\* The first room exists but a font does not fit the atlas: launch panicked.
C24_PackPanics ==
    launched = "panicked" /\ game_assets.pack = "font" /\ game_assets.compile = "none"

\* The ancestors of object i: what the chain parent(i), parent(parent(i)), ...
\* passes, n links followed.
RECURSIVE ChainOf(_, _, _)
ChainOf(objs, i, n) ==
    IF n = 0 \/ objs[i].parent_index < 0 \/ ~ObjectExists(objs, objs[i].parent_index)
    THEN {}
    ELSE {objs[i].parent_index} \cup ChainOf(objs, objs[i].parent_index, n - 1)

\* C29: after launch has succeeded, i is in children[p] if and only if p = i or
\* p occurs on the parent chain of i.
C29_ChildrenAreDescendants ==
    launched = "running" =>
        \A p \in ObjectSlots, i \in ObjectSlots :
            (objects[p].exists /\ objects[i].exists) =>
                (i \in objects[p].children <=>
                    (p = i \/ p \in ChainOf(objects, i, Cardinality(ObjectSlots))))

\* launch succeeded on a chain of three: 0 under 1 under 2.
C29_Witness ==
    /\ launched = "running"
    /\ objects[0].exists /\ objects[0].parent_index = 1
    /\ objects[1].exists /\ objects[1].parent_index = 2
    /\ objects[2].exists /\ objects[2].children = {0, 1, 2}
    /\ objects[1].children = {0, 1}

\* C30: for every object table the launch ends, with a Game or without.
C30_LaunchTerminates == <>(launched \in LaunchEnded)

\* A parent chain that returns to an object it has passed.
CyclicParents(objs) ==
    \E i \in ObjectSlots :
        objs[i].exists /\ i \in ChainOf(objs, i, Cardinality(ObjectSlots))

\* ===================================================================
\* Properties of the mode loops
\* ===================================================================

\* The last thing that happened to the instances was the game end events.
EndEventsFired(g) == g.instances[Len(g.instances)] = [ended |-> TRUE]

\* The last iteration of the mode's loop.
LastIteration == trace[1]

\* C22: in run, record and replay alike, an iteration of the loop at which the
\* window asks to close (and no error occurs) is the last one, and the game end
\* events have fired when the mode returns.
C22_CloseFiresEndEvents ==
    (trace # <<>> /\ LastIteration.close /\ session # "error")
        => (session = "ok" /\ EndEventsFired(game))

\* run() and replay() do shut down that way.
C22_CloseInRunAndReplay ==
    (trace # <<>> /\ LastIteration.close /\ session # "error"
        /\ LastIteration.mode # "record")
        => (session = "ok" /\ EndEventsFired(game))

\* C23: the frame limiter sleeps only in run() without a spoofed clock: never in
\* replay(), and never while the game has a spoofed clock.
C23_SleepOnlyInRealTimeRun ==
    (trace # <<>> /\ LastIteration.slept)
        => (LastIteration.mode = "run" /\ ~LastIteration.before.clock.some)

\* The iteration ran a tick in which a script raised an error, or resolved the
\* tick's scene change by a room load in which one did.
Failed(it) == it.ticked /\ (it.script.error \/ it.load.error)

RequestOfTick(it) == Frame(it.before, it.script, moment_order).scene_change

\* A room load followed the iteration's tick.
LoadFollowed(it) == LoadsAfter(it.mode, Frame(it.before, it.script, moment_order)) # {Quiet}

\* A script asked for the end of the game in the iteration: in its tick, or in
\* an event of the room load that followed the tick.
EndRequested(it) ==
    /\ it.ticked /\ ~Failed(it)
    /\ \/ RequestOfTick(it) = SceneEnd
       \/ (LoadFollowed(it) /\ it.load.in_events = SceneEnd)

\* C26: in run() and replay(), an iteration in which a script requests End, in
\* the tick or in an event of a room load, is the last one: the game end events
\* fire and the mode returns Ok.
C26_EndTerminates ==
    (trace # <<>> /\ LastIteration.mode # "record" /\ EndRequested(LastIteration))
        => (session = "ok" /\ EndEventsFired(game))

\* An End requested in the tick itself does end run() and replay().
C26_EndOfTickTerminates ==
    (trace # <<>> /\ LastIteration.mode # "record" /\ LastIteration.ticked
        /\ ~Failed(LastIteration) /\ RequestOfTick(LastIteration) = SceneEnd)
        => (session = "ok" /\ EndEventsFired(game))

\* C27: after a tick, record() leaves the game and the session as run()'s
\* resolution of the same scene change would: the room loaded, the game
\* restarted, or, on End, the game end events fired and the session over.
C27_RecordResolvesLikeRun ==
    (trace # <<>> /\ LastIteration.mode = "record" /\ LastIteration.ticked
        /\ ~LastIteration.script.error)
        => LET as_run == Resolved("run", Frame(LastIteration.before, LastIteration.script,
                                               moment_order), LastIteration.load)
           IN /\ game = as_run.game
              /\ session = IF as_run.outcome = "continue" THEN "recording" ELSE as_run.outcome

\* On Room and Restart record() and run() do agree.
C27_RoomAndRestartLikeRun ==
    (trace # <<>> /\ LastIteration.mode = "record" /\ LastIteration.ticked
        /\ ~LastIteration.script.error /\ RequestOfTick(LastIteration) # SceneEnd)
        => LET as_run == Resolved("run", Frame(LastIteration.before, LastIteration.script,
                                               moment_order), LastIteration.load)
           IN /\ game = as_run.game
              /\ session = IF as_run.outcome = "continue" THEN "recording" ELSE as_run.outcome

\* C28: no tick of run(), record() or replay() starts with a scene change pending.
C28_NoPendingAtTickStart ==
    (trace # <<>> /\ LastIteration.ticked) => LastIteration.before.scene_change = SceneNone

\* A tick leaves nothing pending once its iteration is over, unless the frame-0
\* draw of the room load asked for a scene change.
C28_PendingOnlyFromDraw ==
    (trace # <<>> /\ session \in {"running", "replaying", "recording"}
        /\ game.scene_change # SceneNone)
        => (LoadFollowed(LastIteration) /\ LastIteration.load.in_draw = game.scene_change)

\* ===================================================================
\* Properties of the reseed of a Frame
\* ===================================================================

\* The Frame of tick k carries a reseed.
Reseeds(k) == k \in 1..Len(replay.frames) /\ replay.frames[k].new_seed.some

\* C21: two processes replay the same Replay; when both have run the tick of a
\* Frame that carries a reseed and go on, they hold the same generator state at
\* the start of the next tick.
C21_ReseedThenSameRng ==
    (session = "replaying" /\ replica.session = "replaying"
        /\ replica.ticks = Len(trace) /\ Reseeds(Len(trace)))
        => replica.game.seed = game.seed

\* The reseed itself comes first: the tick of a Frame that carries new_seed = s
\* starts its first phase with the generator at s (record() and replay()).
C21_ReseedBeforeFirstPhase ==
    \A k \in 1..Len(trace) :
        Reseeds(k) => trace[k].before.seed = replay.frames[k].new_seed.v

\* With equal iteration orders of the moment maps the generators do agree.
C21_SameOrderSameRng ==
    (session = "replaying" /\ replica.session = "replaying"
        /\ replica.ticks = Len(trace) /\ Reseeds(Len(trace))
        /\ replica.order = moment_order)
        => replica.game.seed = game.seed

\* ===================================================================
\* Properties of the collision pass and of refresh_event_holders
\* ===================================================================

\* C31: the collision pass of fill_event_holders comes to its end for every
\* object table and every set of declared collision handlers.
\* Every step of the walk lowers a bound on the steps still to come, which is
\* never negative: at most one map entry per sub-key or id is still to be
\* visited, and in each at most one collider per id, then the move to the next.
StepsLeft ==
    IF launched # "swapping" THEN 0
    ELSE LET keys == Cardinality(SubKeys)
             ids == Cardinality(ObjectSlots)
         IN ((keys + 1 - walk.i) * (ids + 1)) + (ids + 2 - walk.j)

C31_SwapTerminates ==
    [][launched = "swapping" => (StepsLeft' < StepsLeft /\ StepsLeft' >= 0)]_vars

\* The pass has ended on a table in which an object collides with a descendant
\* of its own (or with itself) and a handler names an object that does not exist.
C31_Witness ==
    /\ launched = "running" /\ walk # <<>> /\ walk.i > 2
    /\ \E o \in ObjectSlots : <<"COLLISION", NoSuchObject>> \in objects[o].events
    /\ \E o \in ObjectSlots : \E c \in objects[o].children :
          <<"COLLISION", c>> \in objects[o].events

\* The walk, step by step, builds the index that the loops build as a whole.
C31_StepsBuildTheIndex ==
    (launched = "running" /\ walk # <<>>)
        => event_holders = FillEventHolders(EmptyHolders, objects, walk.ord_e, walk.ord_c)

\* While the walk runs no list holds an id twice and no key is entered twice,
\* so the map and its lists stay within the ids and sub-keys of the game.
C31_MapStaysBounded ==
    launched = "swapping" =>
        LET map == event_holders["COLLISION"] IN
        /\ Len(map) <= Cardinality(SubKeys)
        /\ \A a, b \in 1..Len(map) : map[a].key = map[b].key => a = b
        /\ \A a \in 1..Len(map) :
              /\ Len(map[a].list) <= Cardinality(ObjectSlots)
              /\ Range(map[a].list) \subseteq ObjectSlots

\* The object table before its definitions changed: the same objects, each
\* with every handler declared.
EarlierTable ==
    [i \in ObjectSlots |->
        IF objects[i].exists
        THEN [objects[i] EXCEPT !.events = EventUniverse] ELSE objects[i]]

\* An index refresh_event_holders may find in place when it is called: the one
\* of the earlier table.
StaleIndex ==
    FillEventHolders(EmptyHolders, EarlierTable, <<0, 1, 2, 3>>, <<0, 1, 2, 3>>)

\* The ids in the lists of the draw category.
DrawListed(holders) ==
    {o \in ObjectSlots :
        \E n \in 1..Len(holders["DRAW"]) : o \in Range(holders["DRAW"][n].list)}

\* C32: refresh_event_holders rebuilds the index from scratch: run on a stale
\* index, and with another iteration order of the tables, it gives the index
\* that was built from the current object definitions; a second call gives the
\* same index; and custom_draw_objects is the union of the lists of the draw
\* category.
C32_RefreshFromScratch ==
    launched = "running" =>
        LET once == RefreshedIndex(objects, StaleIndex, <<3, 2, 1, 0>>, <<0, 1, 2, 3>>)
            twice == RefreshedIndex(objects, once, <<0, 1, 2, 3>>, <<3, 2, 1, 0>>)
        IN  /\ once = event_holders
            /\ twice = once
            /\ custom_draw_objects = DrawListed(event_holders)
            /\ CustomDrawObjects(once) = DrawListed(once)

\* An object with a draw handler and a child, and a stale index that held
\* more than the current definitions give.
C32_Witness ==
    /\ launched = "running"
    /\ custom_draw_objects # {}
    /\ \E o \in ObjectSlots : objects[o].children # {} /\ <<"DRAW", 0>> \in objects[o].events
    /\ HandlerCount(objects) = MaxHandlers
    /\ StaleIndex # event_holders
    /\ \E n \in 1..Len(StaleIndex["COLLISION"]) : StaleIndex["COLLISION"][n].list # <<>>

\* ===================================================================
\* Properties of Game::check_collision_line
\* ===================================================================

\* The answer to the last line query with its two endpoints exchanged.
LineReversed ==
    CheckCollisionLine(geometry, query.i1, query.x2, query.y2, query.x1, query.y1,
                       query.precise).value

\* C36: a line query answers the same for (x1, y1, x2, y2) and (x2, y2, x1, y1).
C36_LineEndpointOrder ==
    query.kind = "line" => LineReversed = query.value

\* Segments that are not vertical, and all queries that are not precise, do not
\* depend on the order of the endpoints.
C36_OrderFreeUnlessVerticalAndPrecise ==
    (query.kind = "line" /\ (query.x1 # query.x2 \/ ~query.precise))
        => LineReversed = query.value

\* The probed instance of the last query and the segment of the last line
\* query as the sampling loop receives it: truncated to the box, ends rounded.
Probed == geometry[query.i1]
SampledSegment ==
    LET seg == ClipRight(ClipLeft(LeftFirst(query.x1, query.y1, query.x2, query.y2),
                                  Probed.bbox_left), Probed.bbox_right + 1)
    IN [x1 |-> seg.x1, y1 |-> Round(seg.y1[1], seg.y1[2]),
        x2 |-> seg.x2, y2 |-> Round(seg.y2[1], seg.y2[2])]

\* The last query was a precise line query that reached the sampling loop, on
\* an instance of scale 1.
SampledLineQuery ==
    /\ query.kind = "line" /\ query.precise
    /\ query.value \in {"true", "false"}
    /\ Probed.image_xscale = 1 /\ Probed.image_yscale = 1
    /\ ~LineOutsideBox(Probed, Normalised(query.x1, query.y1, query.x2, query.y2))
    /\ ~MissesBoxVertically(
            ClipRight(ClipLeft(LeftFirst(query.x1, query.y1, query.x2, query.y2),
                               Probed.bbox_left), Probed.bbox_right + 1),
            Probed.bbox_top, Probed.bbox_bottom)
    /\ MaskSprite(Probed).some
    /\ FrameColliderOf(MaskSprite(Probed).v, Probed).some

\* The greater of the two extents of the sampled segment.
GreaterExtent ==
    LET dx == Abs(SampledSegment.x2 - SampledSegment.x1)
        dy == Abs(SampledSegment.y2 - SampledSegment.y1)
    IN IF dx < dy THEN dy ELSE dx

\* The samples of the last line query.
SamplesTaken ==
    LinePoints(ClipRight(ClipLeft(LeftFirst(query.x1, query.y1, query.x2, query.y2),
                                  Probed.bbox_left), Probed.bbox_right + 1))

\* C37: a precise line query that passes the box test samples one point per
\* whole step along the axis of greater extent, both ends included, and so
\* always at least one, whatever the direction of the segment.
C37_OneSamplePerStep ==
    SampledLineQuery => Cardinality(DOMAIN SamplesTaken) = GreaterExtent + 1

\* The count is right whenever the walk is horizontal, or vertical and downward.
C37_OneSamplePerStepUnlessUpward ==
    (SampledLineQuery
        /\ ~(Abs(SampledSegment.x2 - SampledSegment.x1)
                < Abs(SampledSegment.y2 - SampledSegment.y1)
             /\ SampledSegment.y2 < SampledSegment.y1))
        => Cardinality(DOMAIN SamplesTaken) = GreaterExtent + 1

\* ===================================================================
\* Game::load_room and Game::restart
\* ===================================================================

\* assets.rooms: the instance placements (id, object) and tiles of each room.
\* Rooms 0 and 1 are the game's; room 3 places an instance of an object that
\* does not exist; no room has id 2.
Rooms ==
    [r \in {0, 1, 3} |->
        CASE r = 0 -> [instances |-> <<[id |-> 100, object |-> 0], [id |-> 101, object |-> 1]>>,
                       tiles |-> {1, 2}]
          [] r = 1 -> [instances |-> <<[id |-> 102, object |-> 1], [id |-> 103, object |-> 0]>>,
                       tiles |-> {3}]
          [] r = 3 -> [instances |-> <<[id |-> 104, object |-> 0], [id |-> 105, object |-> 9]>>,
                       tiles |-> {}]]

\* The room ids a scene change or a caller may name.
RoomIds == {0, 1, 2, 3}

\* assets.objects: the objects 0 and 1 exist; object 0 is persistent.
ObjectPersistent == [o \in {0, 1} |-> o = 0]

\* Instance::new: the instance takes its persistence from its object.
InstanceNew(id, object) == [id |-> id, persistent |-> ObjectPersistent[object]]

\* InstanceList::get_by_instid
GetByInstid(list, id) ==
    IF \E n \in 1..Len(list) : list[n].id = id
    THEN Some(CHOOSE n \in 1..Len(list) : list[n].id = id) ELSE None

\* iter_by_insertion: the event `ev` for each instance of the list, in order
EventForEach(ev, list) == [n \in 1..Len(list) |-> <<ev, list[n].id>>]

\* What the scripts of one room load do: the stage in which the first event run
\* raises an error (if any), and the scene change they request.
RoomScripts ==
    [fail_in : {"none", "room_end", "create", "game_start", "room_creation", "room_start"},
     request : {SceneNone}]
        \cup [fail_in : {"none"}, request : {SceneRoom(1), SceneRoom(2), SceneRestart, SceneEnd}]

QuietScripts == [fail_in |-> "none", request |-> SceneNone]

\* Mutant of Surviving: every instance stays in the list.
SurvivingAll(list) == list

\* instance_list.remove_with(|instance| !instance.persistent.get())
Surviving(list) == SelectSeq(list, LAMBDA inst : inst.persistent)

RECURSIVE PlaceInstances(_, _, _)
\* "Load all instances in new room, unless they already exist due to persistence"
\* The result holds the list, the ids of the new instances in placement order,
\* and whether every placement named an object.
PlaceInstances(list, placements, new_handles) ==
    IF placements = <<>> THEN [ok |-> TRUE, list |-> list, new_handles |-> new_handles]
    ELSE LET instance == Head(placements) IN
         IF ~GetByInstid(list, instance.id).some
         THEN IF instance.object \in DOMAIN ObjectPersistent
              THEN PlaceInstances(Append(list, InstanceNew(instance.id, instance.object)),
                                  Tail(placements), Append(new_handles, instance.id))
              ELSE [ok |-> FALSE, list |-> list, new_handles |-> new_handles]
         ELSE PlaceInstances(list, Tail(placements), new_handles)

\* The creation code and the create event of each new instance, in turn.
CreationEvents(new_handles) ==
    [n \in 1..(2 * Len(new_handles)) |->
        IF n % 2 = 1 THEN <<"creation_code", new_handles[(n + 1) \div 2]>>
        ELSE <<"create", new_handles[n \div 2]>>]

\* An event of the stage raises an error: the events before it and it have run.
EventFailed(g, events) ==
    [g EXCEPT !.ok = FALSE, !.log = @ \o SubSeq(events, 1, 1)]

\* Mutant of GameStartStage: the flag is left set.
GameStartStageEveryLoad(g) ==
    [g EXCEPT !.log = @ \o EventForEach("game_start", g.instance_list),
              !.starts = Append(@, g.room_id)]

\* "if self.game_start { Run game start event for each instance }"
GameStartStage(g) ==
    IF g.game_start
    THEN [g EXCEPT !.log = @ \o EventForEach("game_start", g.instance_list),
                   !.game_start = FALSE,
                   !.starts = Append(@, g.room_id)]
    ELSE g

\* Mutant of NoSuchRoom: the pending scene change is cleared before the lookup.
NoSuchRoomCleared(g) == [g EXCEPT !.ok = FALSE, !.scene_change = SceneNone]

\* "return Err(format!("Tried to load non-existent room with id {}", room_id))"
NoSuchRoom(g) == [g EXCEPT !.ok = FALSE]

RECURSIVE LoadRoomSteps(_, _, _)
\* Game::load_room on the game g: [instance_list, tile_list, room_id,
\* scene_change, game_start], with the log of the events it ran, the loads in
\* which the game start stage ran and whether it returned Ok.
LoadRoomSteps(g, room_id, scripts) ==
    IF room_id \notin DOMAIN Rooms THEN NoSuchRoom(g)
    ELSE
    LET room == Rooms[room_id]
        early == [g EXCEPT !.scene_change = SceneNone]
        room_end == EventForEach("room_end", g.instance_list)
    IN
    IF scripts.fail_in = "room_end" /\ room_end # <<>> THEN EventFailed(early, room_end)
    ELSE
    LET placed == PlaceInstances(Surviving(g.instance_list), room.instances, <<>>)
        entered == [early EXCEPT !.log = @ \o room_end \o <<<<"remove", room_id>>>>,
                                 !.instance_list = placed.list,
                                 !.tile_list = room.tiles,
                                 !.room_id = room_id]
        creation == CreationEvents(placed.new_handles)
    IN
    IF ~placed.ok THEN [entered EXCEPT !.ok = FALSE]
    ELSE IF scripts.fail_in = "create" /\ creation # <<>> THEN EventFailed(entered, creation)
    ELSE
    LET created == [entered EXCEPT !.log = @ \o creation]
        game_start == EventForEach("game_start", created.instance_list)
    IN
    IF scripts.fail_in = "game_start" /\ created.game_start /\ game_start # <<>>
    THEN EventFailed(created, game_start)
    ELSE
    LET started == GameStartStage(created)
        room_creation == <<<<"room_creation", room_id>>>>
    IN
    IF scripts.fail_in = "room_creation" THEN EventFailed(started, room_creation)
    ELSE
    LET coded == [started EXCEPT !.log = @ \o room_creation,
                                 !.scene_change = scripts.request]
        room_start == EventForEach("room_start", coded.instance_list)
    IN
    IF scripts.fail_in = "room_start" /\ room_start # <<>> THEN EventFailed(coded, room_start)
    ELSE
    LET last == [coded EXCEPT !.log = @ \o room_start,
                              !.scene_change = SceneNone]
    IN
    IF coded.scene_change.kind = "Room"
    THEN LoadRoomSteps(last, coded.scene_change.id, QuietScripts)
    ELSE IF coded.scene_change # SceneNone THEN last
    ELSE [last EXCEPT !.log = @ \o <<<<"draw", room_id>>>>]

\* Game::restart: the game end events, a new instance list, the first room.
RestartSteps(g, scripts) ==
    LoadRoomSteps([g EXCEPT !.log = @ \o EventForEach("room_end", g.instance_list)
                                      \o EventForEach("game_end", g.instance_list),
                            !.instance_list = <<>>],
                  RoomOrder[1], scripts)

\* Game::launch has built the Game: game_start is set and no room is loaded.
InitRooms ==
    /\ pc = "returned" /\ result = "ok" /\ scene_change = SceneNone
    /\ instance_list = <<>> /\ tl_iter = 1 /\ phases = <<>> /\ requested_in = "none"
    /\ tl_before = <<>> /\ moments_run = <<>> /\ marked = {}
    /\ launched = "running" /\ objects = <<>> /\ event_holders = <<>>
    /\ custom_draw_objects = {}
    /\ game_assets = <<>> /\ walk = <<>>
    /\ geometry = <<>> /\ query = NoQuery
    /\ session = "launch"
    /\ game = [room_id |-> -1, tile_list |-> {}, game_start |-> TRUE]
    /\ replay = <<>> /\ frame_count = 0
    /\ files = <<>> /\ do_update_mouse = FALSE /\ moment_order = <<>>
    /\ step = <<>> /\ since_save = <<>> /\ trace = <<>> /\ replica = <<>>

\* The Game as load_room finds it, with an empty log.
AtCall ==
    [instance_list |-> instance_list, tile_list |-> game.tile_list,
     room_id |-> game.room_id, scene_change |-> scene_change,
     game_start |-> game.game_start, log |-> <<>>, starts |-> <<>>, ok |-> TRUE]

\* The call has returned: the Game it leaves, the events it ran (phases), and
\* in `step` the call and the Game it found; `trace` lists the rooms whose
\* load ran the game start stage.
CallReturned(op, room_id, after) ==
    /\ instance_list' = after.instance_list
    /\ scene_change' = after.scene_change
    /\ game' = [room_id |-> after.room_id, tile_list |-> after.tile_list,
                game_start |-> after.game_start]
    /\ phases' = after.log
    /\ result' = IF after.ok THEN "ok" ELSE "err"
    /\ step' = [op |-> op, room_id |-> room_id, before |-> AtCall]
    /\ trace' = LET all == trace \o after.starts
                 IN  IF Len(all) > 2 THEN SubSeq(all, 1, 2) ELSE all
    /\ session' = IF after.ok THEN "running" ELSE "failed"
    /\ UNCHANGED <<pc, tl_iter, requested_in, tl_before, moments_run, marked>>
    /\ UNCHANGED <<indexVars, collisionVars>>
    /\ UNCHANGED <<replay, frame_count, files, do_update_mouse, moment_order,
                   since_save, replica>>

\* Game::launch loads the first room.
LoadFirstRoom ==
    /\ session = "launch"
    /\ \E scripts \in RoomScripts :
          CallReturned("load_room", RoomOrder[1], LoadRoomSteps(AtCall, RoomOrder[1], scripts))

\* A tick's scripts set the `persistent` variable of an instance.
SetPersistent ==
    /\ session = "running"
    /\ \E n \in 1..Len(instance_list) :
          instance_list' = [instance_list EXCEPT ![n].persistent = ~@]
    /\ step' = [op |-> "frame", room_id |-> game.room_id, before |-> AtCall]
    /\ phases' = <<>>
    /\ UNCHANGED <<pc, result, scene_change, tl_iter, requested_in, tl_before,
                   moments_run, marked>>
    /\ UNCHANGED <<indexVars, collisionVars>>
    /\ UNCHANGED <<session, game, replay, frame_count, files, do_update_mouse,
                   moment_order, since_save, trace, replica>>

\* A tick's scripts request a scene change.
RequestScene ==
    /\ session = "running" /\ scene_change = SceneNone
    /\ scene_change' \in {SceneRoom(r) : r \in RoomIds} \cup {SceneRestart}
    /\ step' = [op |-> "frame", room_id |-> game.room_id, before |-> AtCall]
    /\ phases' = <<>>
    /\ UNCHANGED <<pc, result, instance_list, tl_iter, requested_in, tl_before,
                   moments_run, marked>>
    /\ UNCHANGED <<indexVars, collisionVars>>
    /\ UNCHANGED <<session, game, replay, frame_count, files, do_update_mouse,
                   moment_order, since_save, trace, replica>>

\* The mode loop resolves SceneChange::Room(id): self.load_room(id)?
LoadRoomCall ==
    /\ session = "running" /\ scene_change.kind = "Room"
    /\ \E scripts \in RoomScripts :
          CallReturned("load_room", scene_change.id,
                   LoadRoomSteps(AtCall, scene_change.id, scripts))

\* The mode loop resolves SceneChange::Restart: self.restart()?
RestartCall ==
    /\ session = "running" /\ scene_change = SceneRestart
    /\ \E scripts \in RoomScripts :
          CallReturned("restart", RoomOrder[1], RestartSteps(AtCall, scripts))

NextRooms ==
    \/ LoadFirstRoom
    \/ SetPersistent
    \/ RequestScene
    \/ LoadRoomCall
    \/ RestartCall

SpecRooms == InitRooms /\ [][NextRooms]_vars

\* ===================================================================
\* Properties of Game::load_room
\* ===================================================================

\* The last call was load_room and it loaded one room (no load within the load).
OneRoomLoaded ==
    /\ step # <<>> /\ step.op = "load_room"
    /\ Len(SelectSeq(phases, LAMBDA e : e[1] = "remove")) = 1

\* The ids of a list of instances, in order.
IdsOf(list) == [n \in 1..Len(list) |-> list[n].id]

\* C33: after any sequence of successful room loads no two instances of the
\* store share an id; a room load keeps exactly the instances that were
\* persistent, in their order, and adds behind them the placements of the room
\* whose id no kept instance has, in placement order.
C33_NoSharedInstanceId ==
    session = "running" =>
        /\ \A a, b \in 1..Len(instance_list) :
              instance_list[a].id = instance_list[b].id => a = b
        /\ (OneRoomLoaded /\ phases[Len(phases)][1] = "draw") =>
              LET was == step.before.instance_list
                  kept == SelectSeq(was, LAMBDA inst : inst.persistent)
                  fresh == SelectSeq(Rooms[game.room_id].instances,
                              LAMBDA p : \A n \in 1..Len(kept) : kept[n].id # p.id)
              IN  /\ SubSeq(instance_list, 1, Len(kept)) = kept
                  /\ IdsOf(SubSeq(instance_list, Len(kept) + 1, Len(instance_list)))
                        = IdsOf(fresh)

\* A load of room 0 found instance 100 of that room, kept as persistent, and
\* instances that were not persistent; the placement 100 was not made again.
C33_Witness ==
    /\ session = "running" /\ OneRoomLoaded /\ game.room_id = 0
    /\ \E n \in 1..Len(step.before.instance_list) :
          step.before.instance_list[n] = [id |-> 100, persistent |-> TRUE]
    /\ \E n \in 1..Len(step.before.instance_list) :
          ~step.before.instance_list[n].persistent
    /\ Len(instance_list) = Cardinality({instance_list[n].id : n \in 1..Len(instance_list)})
    /\ Len(instance_list) >= 2

\* The place of an event in the order of load_room.
StageOf(e) ==
    CASE e[1] \in {"room_end", "game_end"} -> 1
      [] e[1] = "remove" -> 2
      [] e[1] \in {"creation_code", "create"} -> 3
      [] e[1] = "game_start" -> 4
      [] e[1] = "room_creation" -> 5
      [] e[1] = "room_start" -> 6
      [] OTHER -> 7

EventsNamed(ev) == SelectSeq(phases, LAMBDA e : e[1] = ev)

\* C34: load_room runs its events in the order room end (every instance it
\* found), removal and insertion, creation code then create event of each new
\* instance in placement order, game start, room creation code, room start
\* (every instance); and the game start stage runs in at most one room load of
\* the whole run, restarts included.
C34_LoadRoomEventOrder ==
    /\ Len(trace) <= 1
    /\ (step # <<>> /\ step.op \in {"load_room", "restart"}
          /\ Len(EventsNamed("remove")) <= 1) =>
          \A a, b \in 1..Len(phases) : a < b => StageOf(phases[a]) <= StageOf(phases[b])
    /\ (OneRoomLoaded /\ result = "ok") =>
          LET was == step.before.instance_list
              new == SelectSeq(instance_list,
                        LAMBDA inst : \A n \in 1..Len(was) :
                                         ~(was[n].persistent /\ was[n].id = inst.id))
              made == SelectSeq(phases, LAMBDA e : StageOf(e) = 3)
          IN  /\ EventsNamed("room_end") = [n \in 1..Len(was) |-> <<"room_end", was[n].id>>]
              /\ Len(made) = 2 * Len(new)
              /\ \A n \in 1..Len(new) :
                    /\ made[(2 * n) - 1] = <<"creation_code", new[n].id>>
                    /\ made[2 * n] = <<"create", new[n].id>>
              /\ EventsNamed("game_start") =
                    IF step.before.game_start
                    THEN [n \in 1..Len(instance_list) |-> <<"game_start", instance_list[n].id>>]
                    ELSE <<>>
              /\ EventsNamed("room_creation") = <<<<"room_creation", game.room_id>>>>
              /\ EventsNamed("room_start") =
                    [n \in 1..Len(instance_list) |-> <<"room_start", instance_list[n].id>>]

\* A room was loaded after the game start stage had run in an earlier load: it
\* ran room end events, made new instances and ran no game start event.
C34_Witness ==
    /\ OneRoomLoaded /\ result = "ok"
    /\ trace = <<0>> /\ ~step.before.game_start
    /\ EventsNamed("room_end") # <<>>
    /\ Len(EventsNamed("create")) = 2
    /\ Len(EventsNamed("room_start")) >= 3
    /\ EventsNamed("game_start") = <<>>

\* The game start stage has run and the game was restarted since.
C34_RestartedWithoutGameStart ==
    /\ step # <<>> /\ step.op = "restart" /\ result = "ok"
    /\ trace = <<0>> /\ EventsNamed("game_start") = <<>>
    /\ EventsNamed("game_end") # <<>>

\* C35: load_room with an id that names no room returns an error and leaves
\* the game as it was: no event has run, the instances, the tiles and room_id
\* are the same and the pending scene change is still pending.
C35_NoSuchRoomChangesNothing ==
    (step # <<>> /\ step.op = "load_room" /\ step.room_id \notin DOMAIN Rooms) =>
        /\ result = "err"
        /\ phases = <<>>
        /\ instance_list = step.before.instance_list
        /\ game.tile_list = step.before.tile_list
        /\ game.room_id = step.before.room_id
        /\ game.game_start = step.before.game_start
        /\ scene_change = step.before.scene_change

\* The mode loop asked for room 2 with instances and tiles in place.
C35_Witness ==
    /\ step # <<>> /\ step.op = "load_room" /\ step.room_id = 2
    /\ result = "err" /\ session = "failed"
    /\ scene_change = SceneRoom(2)
    /\ instance_list # <<>> /\ game.tile_list # {} /\ game.room_id \in {0, 1}

\* ===================================================================
\* Window events in Game::record and Game::replay
\* ===================================================================

\* gmio::window::Event, as far as the loops tell them apart.
WindowEvents == {"KeyboardDown", "KeyboardUp", "MouseMove", "MouseButtonDownLeft"}

\* What window.process_events() hands out in one call.
WindowEventSeqs == {<<>>} \cup {<<e>> : e \in WindowEvents}
                      \cup {<<"KeyboardUp", "KeyboardDown">>}

RECURSIVE DeviceKeys(_, _)
\* Event::KeyboardDown => key_press, Event::KeyboardUp => key_release
DeviceKeys(g, events) ==
    IF events = <<>> THEN g
    ELSE DeviceKeys(
            CASE Head(events) = "KeyboardDown" -> [g EXCEPT !.key_held = TRUE]
              [] Head(events) = "KeyboardUp" -> [g EXCEPT !.key_held = FALSE]
              [] OTHER -> g,
            Tail(events))

\* Game::process_window_events
ProcessWindowEvents(play_type, g, events) ==
    IF play_type = "Normal" THEN DeviceKeys(g, events) ELSE g

\* Mutant of RecordWindowLoop: the events are handled as run() handles them.
RecordWindowLoopAsNormal(g, events) == ProcessWindowEvents("Normal", g, events)

\* record(), "for event in self.window.process_events().copied()": no arm of
\* the match touches the input manager or the simulation.
RecordWindowLoop(g, events) == g

RECURSIVE Notifications(_, _)
\* The Information messages the loop sends for the events.
Notifications(events, update_mouse) ==
    IF events = <<>> THEN <<>>
    ELSE (CASE Head(events) = "MouseMove" ->
                  IF update_mouse THEN <<"MousePosition">> ELSE <<>>
            [] Head(events) = "MouseButtonDownLeft" -> <<"LeftClick">>
            [] Head(events) = "KeyboardDown" -> <<"KeyPressed">>
            [] OTHER -> <<>>)
         \o Notifications(Tail(events), update_mouse)

\* replay(), "self.window.process_events();": the events are dropped.
ReplayWindowDrained(run, events) == run

\* The game after an Advance that returned no error, in a session whose scripts
\* do nothing during a room load.
Advanced(g, keys, new_seed, script, order) ==
    LET ticked == Frame(InputsApplied(g, keys, new_seed), script, order)
    IN  IF script.error THEN ticked ELSE Resolved("record", ticked, Quiet).game

\* A record session from launch. `trace` follows a second session that is sent
\* the same messages and whose window hands out no event: its game at launch
\* and after each Advance.
InitDevices ==
    /\ session = "greeting"
    /\ \E clock \in LaunchClocks :
         /\ game = Launched(clock)
         /\ replay = ReplayNew(UnwrapOr(clock, 0), game.seed)
    /\ files = [f \in FileNames |-> None]
    /\ do_update_mouse = FALSE
    /\ moment_order = <<0, 1, 2, 3>>
    /\ step = Handled("none", "none", "", 0, 0, <<>>)
    /\ since_save = None
    /\ frame_count = 0 /\ trace = <<game>> /\ replica = NoReplica
    /\ FrameIdle
    /\ launched = "running" /\ objects = <<>> /\ event_holders = <<>>
    /\ custom_draw_objects = {}
    /\ game_assets = <<>> /\ walk = <<>>
    /\ geometry = <<>> /\ query = NoQuery

\* What the scripts of a tick do in these sessions: a scene change at most.
DeviceScripts == {script \in ScriptResults : ~script.error /\ script.draws = 1}

\* Advance, sent to both sessions.
DeviceAdvance ==
    /\ replica = NoReplica
    /\ \E keys \in KeyInputs, new_seed \in {None}, script \in DeviceScripts :
         /\ Advance(keys, new_seed, FALSE, script)
         /\ trace' = Append(trace, Advanced(trace[Len(trace)], keys, new_seed, script,
                                            moment_order))

\* The window loop that follows each received message in record().
RecordWindowEvents ==
    /\ session = "recording" /\ replica = NoReplica
    /\ \E events \in WindowEventSeqs \ {<<>>} :
         /\ game' = RecordWindowLoop(game, events)
         /\ step' = Handled("main", "window", "", 0, 0,
                            Notifications(events, do_update_mouse))
    /\ UNCHANGED <<session, replay, files, do_update_mouse, since_save, trace>>
    /\ RecordFrame

\* The Replay recorded so far is given to replay() in two freshly launched
\* processes; `since_save` follows the one whose window hands out no event.
DeviceReplayLaunched ==
    /\ replica = NoReplica /\ session = "recording" /\ replay.frames # <<>>
    /\ replica' = ReplayEntered(Launched(None), replay, moment_order)
    /\ since_save' = Some(replica')
    /\ UNCHANGED <<session, game, replay, frame_count, files, do_update_mouse,
                   moment_order, step, trace>>
    /\ UNCHANGED <<frameVars, indexVars, collisionVars>>

\* One iteration of replay()'s loop in both processes.
DeviceReplayTick ==
    /\ replica.session = "replaying" /\ replica.ticks < MaxTicks
    /\ \E events \in WindowEventSeqs, script \in DeviceScripts :
         /\ replica' = ReplayStep(ReplayWindowDrained(replica, events), replay, script)
         /\ since_save' = Some(ReplayStep(since_save.v, replay, script))
         /\ step' = Handled("replay", "window", "", 1, 0, events)
    /\ UNCHANGED <<session, game, replay, frame_count, files, do_update_mouse,
                   moment_order, trace>>
    /\ UNCHANGED <<frameVars, indexVars, collisionVars>>

\* SetUpdateMouse, while the session is recorded.
DeviceSetUpdateMouse == replica = NoReplica /\ RecvSetUpdateMouse

NextDevices ==
    \/ RecvHello
    \/ DeviceSetUpdateMouse
    \/ DeviceAdvance
    \/ RecordWindowEvents
    \/ DeviceReplayLaunched
    \/ DeviceReplayTick

SpecDevices == InitDevices /\ [][NextDevices]_vars

\* ===================================================================
\* Properties of the spoofed clock and of device input
\* ===================================================================

\* The session was recorded from a launch with a spoofed clock and the replay
\* is about to run a tick that the session ran.
ReplicaBeforeRecordedTick ==
    /\ replica.session = "replaying"
    /\ replica.ticks < Len(trace)
    /\ trace[1].before.clock.some

\* C39: with a spoofed clock every tick moves the clock on by
\* floor(10^9 / room_speed) nanoseconds in record() as in replay(): the clock
\* the scripts see during tick n of the replay of a recorded session is the
\* clock they saw during tick n of the session.
C39_SameClockInReplayedTick ==
    ReplicaBeforeRecordedTick =>
        FrameApplied(replica, replay).clock = trace[replica.ticks + 1].before.clock

\* In replay() a tick that does not end the loop moves the spoofed clock on by
\* floor(10^9 / room_speed) of the room the tick ends in.
C39_ReplayTickAdvancesClock ==
    [][(replica.session = "replaying" /\ replica'.session = "replaying"
          /\ replica'.ticks = replica.ticks + 1)
        => replica'.game.clock =
              Some(FrameApplied(replica, replay).clock.v
                      + (1000000000 \div replica'.game.room_speed))]_vars

\* In record() no tick moves the spoofed clock.
C39_RecordKeepsClock ==
    \A k \in 1..Len(trace) : trace[k].after.clock = trace[k].before.clock

C38_KeyPressNotified ==
    /\ step.message = "window" /\ step.updates = <<"KeyPressed">>
    /\ ~game.key_held /\ Len(trace) >= 2

\* A replay has run a tick whose window handed out a key press.
C38_ReplayedWithWindowEvents ==
    /\ since_save.some /\ replica.ticks >= 2
    /\ step.in_loop = "replay" /\ step.updates = <<"KeyboardDown">>
    /\ ~replica.game.key_held

\* ===================================================================
\* asset::Font: serialize and deserialize
\* ===================================================================

\* pub const VERSION: u32 = 800
FontVersion == 800

\* The glyph lookup table holds 0x600 values; the modelled one holds two.
DmapLen == 2

\* write_u32_le
U32Le(n) ==
    <<n % 256, (n \div 256) % 256, (n \div 65536) % 256, (n \div 16777216) % 256>>

\* The result of a read at the cursor: a value and the cursor behind it, or the
\* error of a read past the end.
ReadOk(v, pos) == [ok |-> TRUE, v |-> v, pos |-> pos]
ReadErr == [ok |-> FALSE]

\* read_u32_le at cursor position pos (bytes consumed so far); the values of the
\* modelled files stay below 2^31
ReadU32Le(bytes, pos) ==
    IF pos + 4 > Len(bytes) THEN ReadErr
    ELSE ReadOk(bytes[pos + 1] + (256 * bytes[pos + 2]) + (65536 * bytes[pos + 3])
                   + (16777216 * bytes[pos + 4]),
                pos + 4)

\* write_pas_string: the length, then the bytes
WritePasString(str) == U32Le(Len(str)) \o str

\* read_pas_string
ReadPasString(bytes, pos) ==
    LET len == ReadU32Le(bytes, pos) IN
    IF ~len.ok THEN ReadErr
    ELSE IF len.pos + len.v > Len(bytes) THEN ReadErr
    ELSE ReadOk(SubSeq(bytes, len.pos + 1, len.pos + len.v), len.pos + len.v)

\* Font::serialize
FontSerialize(f) ==
    WritePasString(f.name) \o U32Le(FontVersion) \o WritePasString(f.sys_name)
        \o U32Le(f.size)
        \o U32Le(IF f.bold THEN 1 ELSE 0) \o U32Le(IF f.italic THEN 1 ELSE 0)
        \o U32Le(f.range_start) \o U32Le(f.range_end)
        \o U32Le(f.map_width) \o U32Le(f.map_height)
        \o U32Le(Len(f.pixel_map)) \o f.pixel_map

FontErr == [kind |-> "Err"]
FontPanic == [kind |-> "panic"]

\* Font::deserialize: Ok with the Font, Err, or a panic (assert_eq!,
\* unreachable!, the version match).
FontDeserialize(bytes, strict, version) ==
    LET name == ReadPasString(bytes, 0) IN
    IF ~name.ok THEN FontErr ELSE
    LET ver == ReadU32Le(bytes, name.pos) IN
    IF strict /\ ~ver.ok THEN FontErr ELSE
    IF strict /\ ver.v # FontVersion THEN FontErr ELSE
    LET sys_name == ReadPasString(bytes, name.pos + 4) IN
    IF ~sys_name.ok THEN FontErr ELSE
    LET size == ReadU32Le(bytes, sys_name.pos) IN
    IF ~size.ok THEN FontErr ELSE
    LET bold == ReadU32Le(bytes, size.pos) IN
    IF ~bold.ok THEN FontErr ELSE
    LET italic == ReadU32Le(bytes, bold.pos) IN
    IF ~italic.ok THEN FontErr ELSE
    LET range_start == ReadU32Le(bytes, italic.pos) IN
    IF ~range_start.ok THEN FontErr ELSE
    LET range_end == ReadU32Le(bytes, range_start.pos) IN
    IF ~range_end.ok THEN FontErr ELSE
    IF version \notin {800, 810} THEN FontPanic ELSE
    LET map_width == ReadU32Le(bytes, range_end.pos) IN
    IF ~map_width.ok THEN FontErr ELSE
    LET map_height == ReadU32Le(bytes, map_width.pos) IN
    IF ~map_height.ok THEN FontErr ELSE
    LET len == ReadU32Le(bytes, map_height.pos) IN
    IF ~len.ok THEN FontErr ELSE
    IF map_width.v * map_height.v # len.v THEN FontPanic ELSE
    LET len2 == ReadU32Le(bytes, len.pos) IN
    IF ~len2.ok THEN FontErr ELSE
    IF len2.pos + len2.v > Len(bytes) THEN FontPanic ELSE
    [kind |-> "Ok",
     font |-> [name |-> name.v, sys_name |-> sys_name.v, size |-> size.v,
               bold |-> bold.v # 0, italic |-> italic.v # 0,
               range_start |-> IF version = 810 THEN range_start.v % 65536
                               ELSE range_start.v,
               range_end |-> range_end.v,
               charset |-> IF version = 810 THEN (range_start.v \div 16777216) % 256 ELSE 0,
               aa_level |-> IF version = 810 THEN (range_start.v \div 65536) % 256 ELSE 0,
               dmap |-> [n \in 1..DmapLen |-> 0],
               map_width |-> map_width.v, map_height |-> map_height.v,
               pixel_map |-> SubSeq(bytes, len2.pos + 1, len2.pos + len2.v)]]

\* The pixel maps of n bytes of the modelled fonts.
PixelMaps(n) ==
    {[i \in 1..n |-> IF i = 1 THEN first ELSE IF i <= 4 THEN 0 ELSE rest] :
        first \in {0, 1, 2, 255}, rest \in {0, 9}}

\* The Font values of version 800 of the modelled games.
Fonts ==
    UNION {
        [name : {<<>>, <<102>>}, sys_name : {<<65, 114>>}, size : {12, 256},
         bold : BOOLEAN, italic : {FALSE}, range_start : {32}, range_end : {127},
         charset : {0}, aa_level : {0},
         dmap : {[n \in 1..DmapLen |-> 0], [n \in 1..DmapLen |-> 7 * n]},
         map_width : {dim[1]}, map_height : {dim[2]},
         pixel_map : PixelMaps(dim[1] * dim[2])] :
        dim \in {<<0, 0>>, <<2, 2>>, <<3, 2>>}}

\* A Font of the game's assets; nothing is written yet.
InitFont ==
    /\ game_assets \in [font : Fonts]
    /\ files = <<>>
    /\ step = <<>>
    /\ launched = "assets" /\ objects = <<>> /\ event_holders = <<>>
    /\ custom_draw_objects = {} /\ walk = <<>>
    /\ FrameIdle
    /\ geometry = <<>> /\ query = NoQuery
    /\ session = "idle" /\ game = <<>> /\ replay = <<>> /\ frame_count = 0
    /\ do_update_mouse = FALSE /\ moment_order = <<>>
    /\ since_save = <<>> /\ trace = <<>> /\ replica = <<>>

\* font.serialize(&mut writer)
SerializeFont ==
    /\ files = <<>>
    /\ files' = <<FontSerialize(game_assets.font)>>
    /\ UNCHANGED <<frameVars, indexVars, collisionVars>>
    /\ UNCHANGED <<session, game, replay, frame_count, do_update_mouse, moment_order,
                   step, since_save, trace, replica>>

\* Font::deserialize(bytes, strict, 800) on the bytes written
DeserializeFont ==
    /\ files # <<>> /\ step = <<>>
    /\ \E strict \in BOOLEAN :
          step' = [strict |-> strict, read |-> FontDeserialize(files[1], strict, FontVersion)]
    /\ UNCHANGED <<frameVars, indexVars, collisionVars>>
    /\ UNCHANGED <<session, game, replay, frame_count, files, do_update_mouse,
                   moment_order, since_save, trace, replica>>

NextFont ==
    \/ SerializeFont
    \/ DeserializeFont

SpecFont == InitFont /\ [][NextFont]_vars

\* ------------------------------------------------------------------
\* Properties of Font::serialize and Font::deserialize
\* ------------------------------------------------------------------

\* C40: for every Font f of version 800, deserialize(serialize(f)) succeeds and
\* gives a Font equal to f in name, system name, size, bold, italic, character
\* range, dmap, map width, map height and pixel map.
C40_FontRoundTrip ==
    step # <<>> =>
        /\ step.read.kind = "Ok"
        /\ LET f == game_assets.font
               g == step.read.font
           IN  /\ g.name = f.name /\ g.sys_name = f.sys_name /\ g.size = f.size
               /\ g.bold = f.bold /\ g.italic = f.italic
               /\ g.range_start = f.range_start /\ g.range_end = f.range_end
               /\ g.dmap = f.dmap
               /\ g.map_width = f.map_width /\ g.map_height = f.map_height
               /\ g.pixel_map = f.pixel_map

\* What does hold: a Font that is read back has the name, system name, size,
\* flags, range and map size of the Font written; its dmap is zero and its
\* pixel map is shorter than the one written by four bytes at least.
C40_HeaderRoundTrips ==
    (step # <<>> /\ step.read.kind = "Ok") =>
        LET f == game_assets.font
            g == step.read.font
        IN  /\ g.name = f.name /\ g.sys_name = f.sys_name /\ g.size = f.size
            /\ g.bold = f.bold /\ g.italic = f.italic
            /\ g.range_start = f.range_start /\ g.range_end = f.range_end
            /\ g.map_width = f.map_width /\ g.map_height = f.map_height
            /\ \A n \in 1..DmapLen : g.dmap[n] = 0
            /\ Len(g.pixel_map) + 4 <= Len(f.pixel_map)

\* No Font is read back with the pixel map it was written with.
C40_PixelMapNeverRoundTrips ==
    (step # <<>> /\ step.read.kind = "Ok") =>
        step.read.font.pixel_map # game_assets.font.pixel_map

\* A Font was read back, with another pixel map.
C40_ReadBack ==
    /\ step # <<>> /\ step.read.kind = "Ok"
    /\ step.read.font.pixel_map = <<9, 9>>

====
